---- MODULE Spec2Model ----
(***************************************************************************)
(* A model of the conversational memory backend: the focus / whisper store *)
(* (services/focus_service.py), the short-term context store               *)
(* (services/context_service.py) and the turn orchestrator                 *)
(* (routers/chat.py: chat_interact and _process_chat_background).          *)
(*                                                                         *)
(* Time is the wall clock in whole hours; a date is clock \div 24.         *)
(* The handlers are coroutines on one asyncio event loop: the code between *)
(* two awaits that really suspend runs as one atomic step.                 *)
(***************************************************************************)
EXTENDS Integers, Sequences, FiniteSets, TLC

\* ------------------------------------------------------------ bounds
Users == {"u1", "u2"}
\* the users whose context rows the context store's specification exercises
CtxUsers == {"u1"}
Contents == {"a", "b"}
Texts == {"w1", "w2"}
\* rows of user_focus / whisper_suggestions the model lets the tables grow to
MaxFocus == 2
MaxWhisper == 3
\* the instants (hours) at which the focus store is called: around the cooldown
\* (12 h), the deadline buffer (day 1, day 2) and the TTL (day 15)
FocusInstants == {0, 12, 24, 48, 360}
\* the instants at which the context store is called: around the session timeout (3 h)
CtxInstants == {0, 1, 3, 4, 8}
\* messages appended in all, and the sizes of the lists append_message is called with
MaxMsgs == 103
BatchSizes == {2, 97}

\* ------------------------------------------------- program constants
DEFAULT_FOCUS_TTL_DAYS == 14
INJECTION_COOLDOWN_HOURS == 12
max_history_rounds == 50
session_timeout_hours == 3

\* SQL NULL / Python None in a time, date, id or text column
NoTime == 0 - 1
NoDate == 0 - 1
NoId == 0
None == "none"

VARIABLES
  clock,                \* datetime.now(), in hours
  user_focus,           \* table user_focus: sequence of rows, in insertion order
  whisper_suggestions,  \* table whisper_suggestions: sequence of rows
  user_context,         \* table user_context: user -> row, or NoRow
  ret,                  \* the last service call and what it returned
  shadowed,             \* history: whisper ids that were pending, but not the newest, at a consume
  last_append_at,       \* history: user -> time of the last append_message (NoTime: none yet)
  next_msg,             \* the number of messages appended so far (names the next message)
  turns,                \* the chat_interact requests, in the order they started
  chat_logs,            \* table chat_logs: sequence of rows (the audit log)
  traces,               \* table traces: sequence of rows
  user_profile,         \* table user_profile: user -> its row (present, slots, updated_at)
  graph,                \* the graph databases user_<id>: user -> its edges and episodes
  memory_services,      \* the module global _memory_service of each router, with its user_instances
  writers               \* the batch_update call each process is in, with the slots it has read

focusVars == <<user_focus, whisper_suggestions, shadowed>>
ctxVars == <<user_context, last_append_at, next_msg>>
turnVars == <<turns, chat_logs, traces, user_profile>>

\* datetime.date(): the day a time falls on
Date(t) == t \div 24

\* ====================================================== focus store

\* INSERT INTO user_focus (user_id, content, expected_date, created_at, updated_at)
NewFocusRow(id, u, c, exp, now) ==
  [id |-> id, user_id |-> u, content |-> c, status |-> "active",
   expected_date |-> exp, created_at |-> now, updated_at |-> now,
   last_injected_at |-> NoTime]

\* SELECT id ... WHERE user_id = ? AND content = ? AND status = 'active' (fetchone)
ExistingActive(rows, u, c) ==
  {i \in 1..Len(rows) : rows[i].user_id = u /\ rows[i].content = c
                        /\ rows[i].status = "active"}

\* (mutant) add_focus without the SELECT of the existing row: it always inserts
add_focus_always_insert(rows, u, c, exp, now) ==
  Append(rows, NewFocusRow(Len(rows) + 1, u, c, exp, now))

\* FocusService.add_focus: refresh the active row with this content, else insert
add_focus(rows, u, c, exp, now) ==
  LET ex == ExistingActive(rows, u, c) IN
  IF ex # {}
  THEN LET i == CHOOSE k \in ex : \A j \in ex : k <= j IN
       [rows EXCEPT ![i] =
          IF exp # NoDate
          THEN [@ EXCEPT !.updated_at = now, !.expected_date = exp]
          ELSE [@ EXCEPT !.updated_at = now]]
  ELSE Append(rows, NewFocusRow(Len(rows) + 1, u, c, exp, now))

\* (mutant) the expiry test without the day of grace after the deadline
is_expired_no_grace(f, now) ==
  IF f.expected_date # NoDate
  THEN Date(now) > f.expected_date
  ELSE Date(now) > Date(f.created_at) + DEFAULT_FOCUS_TTL_DAYS

\* the expiry test of get_active_focus_with_time
is_expired(f, now) ==
  IF f.expected_date # NoDate
  THEN Date(now) > f.expected_date + 1
  ELSE Date(now) > Date(f.created_at) + DEFAULT_FOCUS_TTL_DAYS

\* (mutant) the cooldown test comparing with the injection time itself
in_cooldown_no_period(f, now) ==
  /\ f.last_injected_at # NoTime
  /\ now < f.last_injected_at

\* the cooldown test of get_active_focus_with_time
in_cooldown(f, now) ==
  /\ f.last_injected_at # NoTime
  /\ now < f.last_injected_at + INJECTION_COOLDOWN_HOURS

\* the loop of get_active_focus_with_time over rows[1..n], newest row first
\* (ORDER BY created_at DESC: inserts are serialised, so created_at grows with id)
RECURSIVE ActiveLoop(_, _, _, _)
ActiveLoop(rows, n, u, now) ==
  IF n = 0 THEN <<>>
  ELSE LET f == rows[n]
           rest == ActiveLoop(rows, n - 1, u, now)
       IN IF f.user_id # u \/ f.status # "active" THEN rest
          ELSE IF is_expired(f, now) THEN rest
          ELSE IF in_cooldown(f, now) THEN rest
          ELSE <<[id |-> f.id, content |-> f.content,
                  recorded_at |-> Date(f.created_at),
                  expected_date |-> f.expected_date]>> \o rest

\* FocusService.get_active_focus_with_time
get_active_focus_with_time(rows, u, now) == ActiveLoop(rows, Len(rows), u, now)

\* FocusService.mark_focus_injected: UPDATE ... SET last_injected_at = now WHERE id = ?
mark_focus_injected(rows, id, now) ==
  [i \in 1..Len(rows) |->
     IF rows[i].id = id THEN [rows[i] EXCEPT !.last_injected_at = now] ELSE rows[i]]

\* FocusService.archive_focus: UPDATE ... WHERE user_id = ? AND content = ?
archive_focus(rows, u, c, now) ==
  [i \in 1..Len(rows) |->
     IF rows[i].user_id = u /\ rows[i].content = c
     THEN [rows[i] EXCEPT !.status = "archived", !.updated_at = now] ELSE rows[i]]

\* (mutant) statement 1 of clear_all_focus without its user_id condition
clear_focus_rows_all_users(rows, u, now) ==
  [i \in 1..Len(rows) |->
     IF rows[i].status = "active"
     THEN [rows[i] EXCEPT !.status = "archived", !.updated_at = now] ELSE rows[i]]

\* FocusService.clear_all_focus, statement 1: archive every active row of the user
clear_focus_rows(rows, u, now) ==
  [i \in 1..Len(rows) |->
     IF rows[i].user_id = u /\ rows[i].status = "active"
     THEN [rows[i] EXCEPT !.status = "archived", !.updated_at = now] ELSE rows[i]]

\* ==================================================== whisper queue

\* (mutant) the INSERT run twice
save_whisper_suggestion_twice(ws, u, text, now) ==
  ws \o <<[id |-> Len(ws) + 1, user_id |-> u, suggestion |-> text,
           is_consumed |-> 0, created_at |-> now],
          [id |-> Len(ws) + 2, user_id |-> u, suggestion |-> text,
           is_consumed |-> 0, created_at |-> now]>>

\* FocusService.save_whisper_suggestion: INSERT (is_consumed DEFAULT 0)
save_whisper_suggestion(ws, u, text, now) ==
  Append(ws, [id |-> Len(ws) + 1, user_id |-> u, suggestion |-> text,
              is_consumed |-> 0, created_at |-> now])

\* the rows WHERE user_id = ? AND is_consumed = 0
Unconsumed(ws, u) ==
  {i \in 1..Len(ws) : ws[i].user_id = u /\ ws[i].is_consumed = 0}

\* (mutant) the SELECT ordered by created_at ASC: the oldest unconsumed row
LatestUnconsumed_oldest(ws, u) ==
  LET s == Unconsumed(ws, u) IN
  IF s = {} THEN NoId ELSE CHOOSE i \in s : \A j \in s : i <= j

\* ... ORDER BY created_at DESC LIMIT 1 (NoId when there is no row)
LatestUnconsumed(ws, u) ==
  LET s == Unconsumed(ws, u) IN
  IF s = {} THEN NoId ELSE CHOOSE i \in s : \A j \in s : j <= i

\* (mutant) the UPDATE of get_latest_whisper is lost: the row stays unconsumed
MarkConsumed_lost(ws, id) == ws

\* UPDATE whisper_suggestions SET is_consumed = 1 WHERE id = ?
MarkConsumed(ws, id) ==
  [i \in 1..Len(ws) |->
     IF ws[i].id = id THEN [ws[i] EXCEPT !.is_consumed = 1] ELSE ws[i]]

\* FocusService.get_latest_whisper: the table afterwards
get_latest_whisper(ws, u) ==
  LET id == LatestUnconsumed(ws, u) IN
  IF id = NoId THEN ws ELSE MarkConsumed(ws, id)

\* (mutant) the SELECT of peek_latest_whisper ordered by created_at ASC
peek_latest_whisper_oldest(ws, u) ==
  LET s == Unconsumed(ws, u) IN
  IF s = {} THEN NoId ELSE CHOOSE i \in s : \A j \in s : i <= j

\* FocusService.peek_latest_whisper: the row its SELECT returns (NoId: no row)
peek_latest_whisper(ws, u) ==
  LET s == Unconsumed(ws, u) IN
  IF s = {} THEN NoId ELSE CHOOSE i \in s : \A j \in s : j <= i

\* FocusService.get_latest_whisper / peek_latest_whisper: the text returned
WhisperText(ws, id) == IF id = NoId THEN None ELSE ws[id].suggestion

\* FocusService.clear_all_focus, statement 2: consume every pending whisper of the user
clear_whisper_rows(ws, u) ==
  [i \in 1..Len(ws) |->
     IF ws[i].user_id = u /\ ws[i].is_consumed = 0
     THEN [ws[i] EXCEPT !.is_consumed = 1] ELSE ws[i]]

\* ==================================================== context store

NoRow == [summary |-> "", recent_messages |-> <<>>, updated_at |-> NoTime, present |-> FALSE]

\* what the summarizer model returns: a text, maybe empty after strip(); or the call raises
SummaryTexts == {"", "s1", "s2"}
LlmOutcomes == SummaryTexts \cup {"raise"}

\* messages[-2:] if len(messages) >= 2 else messages
LastTwo(msgs) ==
  IF Len(msgs) >= 2 THEN SubSeq(msgs, Len(msgs) - 1, Len(msgs)) ELSE msgs

\* ContextService._summarize: <<new summary, remaining messages>>
_summarize(current_summary, messages, llm) ==
  IF llm = "raise" THEN <<current_summary, messages>>
  ELSE <<llm, LastTwo(messages)>>

\* (mutant) the session rule with the two times of the subtraction swapped
session_expired_swapped(row, now) ==
  /\ row.updated_at # NoTime
  /\ row.summary # ""
  /\ row.updated_at - now > session_timeout_hours

\* get_context, the session rule: summary is cleared when the row is older than the timeout
session_expired(row, now) ==
  /\ row.updated_at # NoTime
  /\ row.summary # ""
  /\ now - row.updated_at > session_timeout_hours

\* get_context, after the session rule: the row with its summary cleared if expired
AfterSessionRule(row, now) ==
  IF session_expired(row, now) THEN [row EXCEPT !.summary = ""] ELSE row

\* get_context, the compaction test
needs_summary(row) == Len(row.recent_messages) \div 2 >= max_history_rounds

\* ContextService.get_context: the row stored afterwards
get_context(row, now, llm) ==
  IF ~row.present THEN row
  ELSE LET r1 == AfterSessionRule(row, now) IN
       IF needs_summary(r1)
       THEN LET res == _summarize(r1.summary, r1.recent_messages, llm) IN
            [r1 EXCEPT !.summary = res[1], !.recent_messages = res[2],
                       !.updated_at = now]
       ELSE r1

\* ContextService.get_context: the dictionary returned (summary, history)
ContextResult(row) == [summary |-> row.summary, history |-> row.recent_messages]

\* (mutant) an UPDATE that stores the new messages in place of the stored ones
append_message_overwriting(row, msgs, now) ==
  [summary |-> row.summary, recent_messages |-> msgs, updated_at |-> now, present |-> TRUE]

\* ContextService.append_message: UPDATE the row, or INSERT it with an empty summary
append_message(row, msgs, now) ==
  IF row.present
  THEN [row EXCEPT !.recent_messages = @ \o msgs, !.updated_at = now]
  ELSE [summary |-> "", recent_messages |-> msgs, updated_at |-> now, present |-> TRUE]

\* ============================================== the profile store
\* (src/services/profile_service.py, src/schemas/profile_schema.py)

\* a slot value as Python holds it after json.loads: None, a str, or a list of
\* values; "repr" is the str that str() makes of a list (its text is the list's)
NoValue == [kind |-> "none", s |-> "", items |-> <<>>]
Str(s) == [kind |-> "str", s |-> s, items |-> <<>>]
List(q) == [kind |-> "list", s |-> "", items |-> q]

\* str(v) of _merge_slots' call of _llm_merge
PyStr(v) ==
  IF v.kind = "list" THEN [kind |-> "repr", s |-> "", items |-> v.items]
  ELSE IF v.kind = "none" THEN Str("None")
  ELSE v

\* bool(v): None, "" and [] are false
Truthy(v) ==
  CASE v.kind = "none" -> FALSE
    [] v.kind = "str"  -> v.s # ""
    [] v.kind = "list" -> v.items # <<>>
    [] OTHER           -> TRUE

\* SLOT_SCHEMA[key]["merge_strategy"], for one slot of each strategy
SLOT_SCHEMA ==
  [nickname |-> "replace", hobbies |-> "append", emotional_baseline |-> "llm_judge"]

\* the dict of a user without a row, or with no slot set: .get(key) is None
NoSlots == [k \in DOMAIN SLOT_SCHEMA |-> NoValue]

\* a user without a row of user_profile
NoProfile == [present |-> FALSE, slots |-> NoSlots, updated_at |-> NoTime]

\* ProfileService.get_all_slots: the slots of the row, {} without a row
get_all_slots(profile, u) == profile[u].slots

\* ProfileService._save_slots: UPDATE slots and updated_at, or INSERT the row
_save_slots(profile, u, slots, now) ==
  [profile EXCEPT ![u] = [present |-> TRUE, slots |-> slots, updated_at |-> now]]

\* v in q
InList(v, q) == \E i \in 1..Len(q) : q[i] = v

\* the list an append slot is turned into before values are added:
\* current if it is a list, else [current] if current else []
AsList(v) ==
  IF v.kind = "list" THEN v.items ELSE IF Truthy(v) THEN <<v>> ELSE <<>>

\* the loop without its test: every value is appended
append_values_no_dedupe(cur, vals) == cur \o vals

\* for v in value: if v not in current: current.append(v)
RECURSIVE append_values(_, _)
append_values(cur, vals) ==
  IF vals = <<>> THEN cur
  ELSE append_values(IF InList(Head(vals), cur) THEN cur ELSE Append(cur, Head(vals)),
                     Tail(vals))

\* the values of a list taken last first
ValuesOf_reversed(value) ==
  IF value.kind = "list"
  THEN [i \in 1..Len(value.items) |-> value.items[Len(value.items) + 1 - i]]
  ELSE <<value>>

\* the values an update of an append slot brings: the list's, or the single value
ValuesOf(value) == IF value.kind = "list" THEN value.items ELSE <<value>>

\* batch_update's filter: None, a blank str, an empty list or a list of false values
is_empty_value(value) ==
  \/ value.kind = "none"
  \/ value.kind = "str" /\ value.s = ""
  \/ value.kind = "list" /\ \A i \in 1..Len(value.items) : ~Truthy(value.items[i])

\* one round of batch_update's loop over the updates
batch_step(st, update) ==
  LET key == update.slot
      value == update.value
  IN IF is_empty_value(value) THEN st
     ELSE IF key \notin DOMAIN SLOT_SCHEMA THEN [st EXCEPT !.errors = @ + 1]
     ELSE IF SLOT_SCHEMA[key] = "append"
     THEN LET cur == AsList(st.slots[key])
              new == append_values(cur, ValuesOf(value))
          IN [st EXCEPT !.slots[key] = List(new),
                        !.updated_count = @ + (Len(new) - Len(cur))]
     ELSE IF st.slots[key] # value
          THEN [st EXCEPT !.slots[key] = value, !.updated_count = @ + 1]
          ELSE st

RECURSIVE batch_loop(_, _)
batch_loop(st, updates) ==
  IF updates = <<>> THEN st
  ELSE batch_loop(batch_step(st, Head(updates)), Tail(updates))

\* ProfileService.batch_update: the loop, then _save_slots if updated_count > 0
batch_result(profile, u, updates) ==
  batch_loop([slots |-> get_all_slots(profile, u), updated_count |-> 0, errors |-> 0],
             updates)

\* (mutant) a batch_update that leaves the profile as it was
batch_update_dropped(profile, u, updates, now) == profile

batch_update(profile, u, updates, now) ==
  LET st == batch_result(profile, u, updates)
  IN IF st.updated_count > 0 THEN _save_slots(profile, u, st.slots, now) ELSE profile

\* ProfileService.update_slot: an unknown key is an error, else the value is stored
update_slot(profile, u, key, value, now) ==
  IF key \notin DOMAIN SLOT_SCHEMA THEN profile
  ELSE _save_slots(profile, u, [get_all_slots(profile, u) EXCEPT ![key] = value], now)

\* the fallback keeps the old value
_llm_merge_keeps_old(reply, old_value, new_value) ==
  IF reply.parsed /\ reply.has_value THEN reply.value ELSE old_value

\* ProfileService._llm_merge(key, old_value, new_value) of two strs: the "value"
\* of the parsed reply, new_value when the reply has none, when it cannot be
\* parsed and when the call raises
_llm_merge(reply, old_value, new_value) ==
  IF reply.parsed /\ reply.has_value THEN reply.value ELSE new_value

\* one round of _merge_slots' loop: field is a (key, new_value) of the extracted
\* dict, reply the adjudicator's reply should the round call it
merge_step(st, field, reply) ==
  LET key == field.slot
      new_value == field.value
  IN IF key \notin DOMAIN SLOT_SCHEMA THEN st
     ELSE LET old_value == st.slots[key]
              strategy == SLOT_SCHEMA[key]
          IN IF old_value = NoValue \/ strategy = "replace"
             THEN [st EXCEPT !.slots[key] = new_value, !.updated_keys = @ \cup {key}]
             ELSE IF strategy = "append"
             THEN LET cur == AsList(old_value)
                      new == append_values(cur, ValuesOf(new_value))
                  IN [st EXCEPT !.slots[key] = List(new),
                                !.updated_keys = IF Len(new) > Len(cur)
                                                 THEN @ \cup {key} ELSE @]
             ELSE LET merged_value == _llm_merge(reply, PyStr(old_value), PyStr(new_value))
                  IN [st EXCEPT !.slots[key] = IF merged_value # old_value
                                               THEN merged_value ELSE @,
                                !.updated_keys = IF merged_value # old_value
                                                 THEN @ \cup {key} ELSE @,
                                !.judged = Append(@, [slot |-> key,
                                                      old |-> PyStr(old_value),
                                                      new |-> PyStr(new_value)])]

RECURSIVE merge_loop(_, _, _)
merge_loop(st, fields, reply) ==
  IF fields = <<>> THEN st
  ELSE merge_loop(merge_step(st, Head(fields), reply), Tail(fields), reply)

\* ProfileService._merge_slots: the loop over the extracted dict; judged is the
\* list of the calls of _llm_merge it made
merge_result(profile, u, new_slots, reply) ==
  merge_loop([slots |-> get_all_slots(profile, u), updated_keys |-> {}, judged |-> <<>>],
             new_slots, reply)

\* _merge_slots saves whatever the loop did
_merge_slots(profile, u, new_slots, reply, now) ==
  _save_slots(profile, u, merge_result(profile, u, new_slots, reply).slots, now)

\* ProfileService.extract_slots: the extraction call raises or its reply is not
\* JSON (ok = FALSE), the reply is an empty dict, or the reply is merged
extract_slots(profile, u, ok, extracted, reply, now) ==
  IF ~ok \/ extracted = <<>> THEN profile
  ELSE _merge_slots(profile, u, extracted, reply, now)

\* ProfileService.clear_profile: DELETE FROM user_profile WHERE user_id = ?
clear_profile(profile, u) == [profile EXCEPT ![u] = NoProfile]

\* ============================================== the stores' operations

\* no call has returned since the last write or tick
\* ==================================================== memory graph

\* what the decision model's call gives: it raises, its text is not the JSON
\* object asked for, or the object says true, says false, or lacks the key
DecisionReplies == {"raises", "unparsable", "true", "false", "no_key"}

\* the except branch of the two decisions is taken
DecisionFailed(reply) == reply \in {"raises", "unparsable"}

\* (mutant) should_retrieve whose except branch answers False
should_retrieve_default_false(reply) == reply = "true"

\* MemoryDecisionAgent.should_retrieve: bool(result.get("should_retrieve", False)),
\* and True from the except branch
should_retrieve(reply) == IF DecisionFailed(reply) THEN TRUE ELSE reply = "true"

\* (mutant) should_store whose except branch answers True
should_store_default_true(reply) == DecisionFailed(reply) \/ reply = "true"

\* MemoryDecisionAgent.should_store: bool(result.get("should_store", False)),
\* and False from the except branch
should_store(reply) == IF DecisionFailed(reply) THEN FALSE ELSE reply = "true"

\* the graph database of a user nothing was ingested into
NoGraph == [edges |-> <<>>, episodes |-> 0]

\* the edge the memory engine makes of a fact: its relation type and its period
NewEdge(relation, valid_at, invalid_at) ==
  [relation |-> relation, valid_at |-> valid_at, invalid_at |-> invalid_at]

\* graphiti.add_episode as the service sees it: one more episode, the edges the
\* engine extracted, and the edge it invalidated at now, if any (inv = 0: none)
add_episode(g, added, inv, now) ==
  [edges |-> [i \in 1..Len(g.edges) |->
                IF i = inv /\ g.edges[i].invalid_at = NoTime
                THEN [g.edges[i] EXCEPT !.invalid_at = now] ELSE g.edges[i]]
             \o added,
   episodes |-> g.episodes + 1]

\* MemoryService.add_memory_item and MemoryService.store: add_episode, whose
\* exception is caught (a call that raises is taken to have written nothing)
store(g, raises, added, inv, now) ==
  IF raises THEN g ELSE add_episode(g, added, inv, now)

\* MemoryService.smart_store: the decision, then store when it says so
smart_store(g, reply, raises, added, inv, now) ==
  IF should_store(reply) THEN store(g, raises, added, inv, now) ELSE g

\* get_all's Cypher query: MATCH (n)-[r]->(m) WHERE type(r) <> 'MENTIONS'
Records(g) == SelectSeq(g.edges, LAMBDA e : e.relation # "MENTIONS")

\* get_all: the item made of a record
Item(record) ==
  [relation |-> record.relation, valid_at |-> record.valid_at,
   invalid_at |-> record.invalid_at, is_current |-> record.invalid_at = NoTime]

\* the key of get_all's sort: x.get("valid_at") or "", the empty string first
SortKey(item) == IF item.valid_at = NoTime THEN 0 - 1 ELSE item.valid_at

\* list.sort(key=...): stable, ascending; here by insertion from the left
RECURSIVE SortedByKey(_)
SortedByKey(items) ==
  IF items = <<>> THEN <<>>
  ELSE LET n == Len(items)
           x == items[n]
           rest == SortedByKey(SubSeq(items, 1, n - 1))
           before == SelectSeq(rest, LAMBDA y : SortKey(y) <= SortKey(x))
           after == SelectSeq(rest, LAMBDA y : SortKey(y) > SortKey(x))
       IN before \o <<x>> \o after

\* get_all: grouped_history, the items of each relation sorted by valid_at
grouped_history(memories) ==
  [rel \in {memories[i].relation : i \in 1..Len(memories)} |->
     SortedByKey(SelectSeq(memories, LAMBDA m : m.relation = rel))]

\* MemoryService.get_all: the dict it returns has the keys memories, episodes and
\* count; grouped_history is built and is not part of it. An exception of the
\* query gives the empty lists.
get_all(g, raises) ==
  IF raises THEN [memories |-> <<>>, episodes |-> 0, count |-> 0]
  ELSE LET memories == [i \in 1..Len(Records(g)) |-> Item(Records(g)[i])]
       IN [memories |-> memories, episodes |-> g.episodes,
           count |-> Len(memories) + g.episodes]

\* result.get("grouped") of a dict without that key
NoGrouped == [present |-> FALSE, groups |-> <<>>]

\* list_memories: the ListResponse made of get_all's dict
list_memories(result) ==
  [memories |-> result.memories, episodes |-> result.episodes,
   count |-> result.count,
   grouped |-> IF "grouped" \in DOMAIN result
               THEN [present |-> TRUE, groups |-> result.grouped]
               ELSE NoGrouped]

\* MemoryService.clear: MATCH (n) DETACH DELETE n on the user's graph, whose
\* exception is caught
clear(g, raises) == IF raises THEN g ELSE NoGraph

\* what graphiti.search gives: it raises, or it returns its results
NoHits == [raises |-> FALSE, results |-> <<>>]
SearchOutcomes == {[raises |-> TRUE, results |-> <<>>], NoHits,
                   [raises |-> FALSE, results |-> <<"m1">>]}

\* (mutant) search without its except branch: the failure's marker reaches the caller
search_uncaught(found) == IF found.raises THEN <<"error">> ELSE found.results

\* MemoryService.search: the memories of the results, none when the search raises
search(found) == IF found.raises THEN <<>> ELSE found.results

\* MemoryService.retrieve: the decision, then the search when it says so
retrieve(reply, found) ==
  LET sr == should_retrieve(reply)
  IN [should_retrieve |-> sr, searched |-> sr,
      memories |-> IF sr THEN search(found) ELSE <<>>]

\* chat_interact: the memory block of the prompt, a header and one line per memory
memory_block(memories) ==
  IF memories # <<>> THEN <<"header">> \o memories ELSE <<>>

\* no call yet, or a step that records none
NoRet == [op |-> "none"]

\* ---- batch_update in two processes ----

\* the processes that call batch_update on the one profile database: the HTTP
\* server (the background task) and the scheduler (the daily job)
Processes == {"server", "scheduler"}

\* a process that is not inside batch_update
NoWrite == [pc |-> "idle", user |-> "none", current_slots |-> NoSlots,
            updates |-> <<>>, overlapped |-> {}]

\* the update lists of the two callers
OverlapUpdates ==
  {<<[slot |-> "nickname", value |-> Str("x")]>>,
   <<[slot |-> "nickname", value |-> Str("y")]>>,
   <<[slot |-> "emotional_baseline", value |-> Str("x")]>>,
   <<[slot |-> "hobbies", value |-> Str("x")]>>}

\* batch_update, its first statement: get_all_slots reads the row on a
\* connection of its own and closes it
BatchUpdateRead(p, u, updates) ==
  /\ writers[p].pc = "idle"
  /\ writers' = [writers EXCEPT ![p] =
                   [pc |-> "read", user |-> u,
                    current_slots |-> get_all_slots(user_profile, u),
                    updates |-> updates, overlapped |-> {}]]
  /\ ret' = NoRet
  /\ UNCHANGED <<memory_services, graph, clock, focusVars, ctxVars, turnVars>>

\* batch_update, the rest: the loop changes the dict that was read, and
\* _save_slots writes the whole dict when updated_count > 0. The calls of other
\* processes that are between their read and their save have this save as one
\* that overlapped them.
BatchUpdateSave(p) ==
  LET w == writers[p]
      st == batch_loop([slots |-> w.current_slots, updated_count |-> 0, errors |-> 0],
                       w.updates)
  IN /\ w.pc = "read"
     /\ user_profile' =
          IF st.updated_count > 0
          THEN _save_slots(user_profile, w.user, st.slots, clock) ELSE user_profile
     /\ writers' =
          [q \in Processes |->
             IF q = p THEN NoWrite
             ELSE IF writers[q].pc = "read" /\ writers[q].user = w.user
               THEN [writers[q] EXCEPT !.overlapped = @ \cup {w.updates}]
             ELSE writers[q]]
     /\ ret' = [op |-> "batch_update_save", user |-> w.user, process |-> p,
                updates |-> w.updates, overlapped |-> w.overlapped]
     /\ UNCHANGED <<memory_services, graph, clock, focusVars, ctxVars, turns,
                    chat_logs, traces>>

\* ---- the graph handles ----

\* the router modules that keep a MemoryService of their own in a module global
Routers == {"chat", "memory"}

\* no Graphiti instance
NoHandle == [id |-> 0, database |-> "none"]

\* _memory_service is None
NoService == [created |-> FALSE, user_instances |-> [u \in Users |-> NoHandle]]

\* get_memory_service of a router module: creates the module's MemoryService on
\* the first call
get_memory_service(ms, r) == [ms EXCEPT ![r].created = TRUE]

\* the Graphiti instances that exist in the process
Handles(ms) ==
  {ms[r].user_instances[u] : r \in Routers, u \in Users} \ {NoHandle}

\* Graphiti(graph_driver=base_driver.clone(database="user_<id>"), ...): a new
\* object, different from every object that exists
NewHandle(ms, u) == [id |-> Cardinality(Handles(ms)) + 1, database |-> u]

\* MemoryService._get_graph_for_user on the service of router r: the cached
\* instance, or a new one that is put in the cache. No await: one step.
get_graph_for_user(ms, r, u) ==
  IF ms[r].user_instances[u] # NoHandle THEN ms
  ELSE [ms EXCEPT ![r].user_instances[u] = NewHandle(ms, u)]

\* a request of router r for user u comes to its first graph call
GetGraphForUser(r, u) ==
  LET ms == get_graph_for_user(get_memory_service(memory_services, r), r, u)
  IN /\ memory_services' = ms
     /\ ret' = [op |-> "get_graph_for_user", router |-> r, user |-> u,
                handle |-> ms[r].user_instances[u]]
     /\ UNCHANGED <<writers, graph, clock, focusVars, ctxVars, turnVars>>

\* ---- the JSON path of the LLM gateway ----

\* max_tokens=None
NoMaxTokens == -1

\* the limit and the default of the patched _generate_response
MAX_TOKENS_LIMIT == 4096
SAFE_MAX_TOKENS == 4000

\* the max_tokens values a caller passes
MaxTokens == {NoMaxTokens, 1000, MAX_TOKENS_LIMIT, MAX_TOKENS_LIMIT + 1, 8192}

\* a message content is a sequence of pieces of text: the caller's text, without
\* or with the word json in it, and the three pieces the gateway adds
SchemaInstruction == "Output strictly in JSON format matching this schema: <schema>"
EnsureJson == " Ensure output is valid JSON."
DefaultSystem == "You are a helpful assistant. Ensure output is valid JSON."
PromptContents == {<<"text">>, <<"text with json">>}

\* "json" in content.lower()
ContainsJson(content) ==
  \E i \in 1..Len(content) :
    content[i] \in {"text with json", SchemaInstruction, EnsureJson, DefaultSystem}

\* the response_model argument: none, a pydantic model, or an object whose
\* model_json_schema() raises
ResponseModels == {"none", "model", "no schema"}

MaxPrompt == 2
Prompts ==
  UNION {[1..n -> [role : {"system", "user", "assistant"}, content : PromptContents]] :
           n \in 0..MaxPrompt}

\* the index of the first system message, 0 when there is none
FirstSystem(ms) ==
  IF \E i \in 1..Len(ms) : ms[i].role = "system"
  THEN CHOOSE i \in 1..Len(ms) :
         ms[i].role = "system" /\ \A j \in 1..(i - 1) : ms[j].role # "system"
  ELSE 0

\* step 1 of the patch
safe_max_tokens(max_tokens) ==
  IF max_tokens # NoMaxTokens /\ max_tokens > MAX_TOKENS_LIMIT
  THEN MAX_TOKENS_LIMIT ELSE SAFE_MAX_TOKENS

\* step 2 of the patch: the loop keeps system and user messages and appends the
\* schema instruction to the first system message; has_json_instruction looks at
\* the system contents before that; without it the first system message gets
\* the JSON sentence, or a system message is inserted when there is none
openai_messages(messages, response_model) ==
  LET kept == SelectSeq(messages, LAMBDA m : m.role \in {"system", "user"})
      fs == FirstSystem(kept)
      has_json_instruction ==
        \E i \in 1..Len(kept) : kept[i].role = "system" /\ ContainsJson(kept[i].content)
      injected ==
        IF response_model = "model" /\ fs # 0
        THEN [kept EXCEPT ![fs].content = @ \o <<SchemaInstruction>>]
        ELSE kept
  IN IF has_json_instruction \/ kept = <<>> THEN injected
     ELSE IF fs # 0 THEN [injected EXCEPT ![fs].content = @ \o <<EnsureJson>>]
     ELSE <<[role |-> "system", content |-> <<DefaultSystem>>]>> \o injected

\* the request patched_generate_response sends to chat.completions.create
GenerateResponse(messages, response_model, max_tokens) ==
  /\ ret' = [op |-> "generate_response", response_model |-> response_model,
             messages |-> openai_messages(messages, response_model),
             max_tokens |-> safe_max_tokens(max_tokens)]
  /\ UNCHANGED <<writers, memory_services, graph, clock, focusVars, ctxVars, turnVars>>


Init ==
  /\ clock = 0
  /\ user_focus = <<>>
  /\ whisper_suggestions = <<>>
  /\ user_context = [u \in Users |-> NoRow]
  /\ ret = NoRet
  /\ memory_services = [r \in Routers |-> NoService]
  /\ writers = [p \in Processes |-> NoWrite]
  /\ shadowed = {}
  /\ last_append_at = [u \in Users |-> NoTime]
  /\ next_msg = 0
  /\ turns = <<>>
  /\ chat_logs = <<>>
  /\ traces = <<>>
  /\ user_profile = [u \in Users |-> NoProfile]
  /\ graph = [u \in Users |-> NoGraph]

\* time passes
Advance(instants) ==
  \E t \in instants : t > clock /\ clock' = t

FocusTick == Advance(FocusInstants) /\ ret' = NoRet /\ UNCHANGED <<writers, memory_services, graph, focusVars, ctxVars, turnVars>>

CtxTick == Advance(CtxInstants) /\ ret' = NoRet /\ UNCHANGED <<writers, memory_services, graph, focusVars, ctxVars, turnVars>>

AddFocus(u, c, exp) ==
  /\ Len(user_focus) < MaxFocus \/ ExistingActive(user_focus, u, c) # {}
  /\ user_focus' = add_focus(user_focus, u, c, exp, clock)
  /\ ret' = NoRet
  /\ UNCHANGED <<writers, memory_services, graph, clock, whisper_suggestions, shadowed, ctxVars, turnVars>>

GetActiveFocus(u) ==
  /\ ret' = [op |-> "get_active_focus", user |-> u,
             val |-> get_active_focus_with_time(user_focus, u, clock)]
  /\ UNCHANGED <<writers, memory_services, graph, clock, focusVars, ctxVars, turnVars>>

MarkFocusInjected(id) ==
  /\ user_focus' = mark_focus_injected(user_focus, id, clock)
  /\ ret' = NoRet
  /\ UNCHANGED <<writers, memory_services, graph, clock, whisper_suggestions, shadowed, ctxVars, turnVars>>

ArchiveFocus(u, c) ==
  /\ user_focus' = archive_focus(user_focus, u, c, clock)
  /\ ret' = NoRet
  /\ UNCHANGED <<writers, memory_services, graph, clock, whisper_suggestions, shadowed, ctxVars, turnVars>>

ClearAllFocus(u) ==
  /\ user_focus' = clear_focus_rows(user_focus, u, clock)
  /\ whisper_suggestions' = clear_whisper_rows(whisper_suggestions, u)
  /\ ret' = [op |-> "clear_all_focus", user |-> u]
  /\ UNCHANGED <<writers, memory_services, graph, clock, shadowed, ctxVars, turnVars>>

SaveWhisper(u, text) ==
  /\ Len(whisper_suggestions) < MaxWhisper
  /\ whisper_suggestions' = save_whisper_suggestion(whisper_suggestions, u, text, clock)
  /\ ret' = [op |-> "save_whisper_suggestion", user |-> u]
  /\ UNCHANGED <<writers, memory_services, graph, clock, user_focus, shadowed, ctxVars, turnVars>>

GetLatestWhisper(u) ==
  LET id == LatestUnconsumed(whisper_suggestions, u) IN
  /\ whisper_suggestions' = get_latest_whisper(whisper_suggestions, u)
  /\ shadowed' = shadowed \cup (Unconsumed(whisper_suggestions, u) \ {id})
  /\ ret' = [op |-> "get_latest_whisper", user |-> u, id |-> id,
             val |-> WhisperText(whisper_suggestions, id)]
  /\ UNCHANGED <<writers, memory_services, graph, clock, user_focus, ctxVars, turnVars>>

PeekLatestWhisper(u) ==
  LET id == peek_latest_whisper(whisper_suggestions, u) IN
  /\ ret' = [op |-> "peek_latest_whisper", user |-> u, id |-> id,
             val |-> WhisperText(whisper_suggestions, id)]
  /\ UNCHANGED <<writers, memory_services, graph, clock, focusVars, ctxVars, turnVars>>

\* the messages of one append_message call: the next n messages
NewMessages(n) == [i \in 1..n |-> next_msg + i]

AppendMessage(u, n) ==
  /\ next_msg + n <= MaxMsgs
  /\ user_context' = [user_context EXCEPT
                        ![u] = append_message(@, NewMessages(n), clock)]
  /\ next_msg' = next_msg + n
  /\ last_append_at' = [last_append_at EXCEPT ![u] = clock]
  /\ ret' = [op |-> "append_message", user |-> u]
  /\ UNCHANGED <<writers, memory_services, graph, clock, focusVars, turnVars>>

GetContext(u, llm) ==
  LET row == user_context[u]
      new == get_context(row, clock, llm)
      compacts == row.present /\ needs_summary(AfterSessionRule(row, clock))
  IN
  /\ user_context' = [user_context EXCEPT ![u] = new]
  /\ ret' = [op |-> "get_context", user |-> u, at |-> clock, before |-> row,
             llm |-> IF compacts THEN llm ELSE "unused",
             val |-> ContextResult(new)]
  /\ UNCHANGED <<writers, memory_services, graph, clock, focusVars, last_append_at, next_msg, turnVars>>

ClearContext(u) ==
  /\ user_context' = [user_context EXCEPT ![u] = NoRow]
  /\ ret' = [op |-> "clear_context", user |-> u]
  /\ UNCHANGED <<writers, memory_services, graph, clock, focusVars, last_append_at, next_msg, turnVars>>

ClearSummary(u) ==
  /\ user_context' = [user_context EXCEPT ![u] = [@ EXCEPT !.summary = ""]]
  /\ ret' = [op |-> "clear_summary", user |-> u]
  /\ UNCHANGED <<writers, memory_services, graph, clock, focusVars, last_append_at, next_msg, turnVars>>

\* ------------------------------------------------ the profile's operations

\* the user whose profile is written
ProfileUsers == {"u1"}
\* updates of one batch_update, fields of one extracted dict (at most)
MaxUpdates == 1
\* the values a request or a model's reply can carry
ProfileValues ==
  {NoValue, Str(""), Str("x"), Str("y"), List(<<>>), List(<<Str("x"), Str("y")>>)}
\* the keys a request or a model's reply can name: the schema's and one outside it
ProfileKeys == DOMAIN SLOT_SCHEMA \cup {"mood"}
\* the update lists of batch_update, the (key, value) lists of an extracted dict
SlotFields == [slot : ProfileKeys, value : ProfileValues]
ListsUpTo(n) == {<<>>} \cup UNION {[1..k -> SlotFields] : k \in 1..n}
UpdateLists == ListsUpTo(MaxUpdates)
ExtractedDicts ==
  {d \in UpdateLists : \A i, j \in 1..Len(d) : d[i].slot = d[j].slot => i = j}
\* what the adjudicator's call can come to: it raises or its reply is not JSON,
\* the reply has no "value", the reply has one
NoReply == [parsed |-> FALSE, has_value |-> FALSE, value |-> NoValue]
JudgeReplies ==
  {NoReply, [parsed |-> TRUE, has_value |-> FALSE, value |-> NoValue]}
    \cup [parsed : {TRUE}, has_value : {TRUE}, value : {Str("m"), Str("")}]
\* the replies that matter to an extraction: the adjudicator's if it is called
RepliesFor(u, extracted) ==
  IF merge_result(user_profile, u, extracted, NoReply).judged # <<>>
  THEN JudgeReplies ELSE {NoReply}

\* PUT /profile/{user_id}/slot: the value of the request is a str
UpdateSlot(u, key, value) ==
  /\ value.kind = "str"
  /\ user_profile' = update_slot(user_profile, u, key, value, clock)
  /\ ret' = [op |-> "update_slot", user |-> u]
  /\ UNCHANGED <<writers, memory_services, graph, clock, focusVars, ctxVars, turns, chat_logs, traces>>

BatchUpdate(u, updates) ==
  /\ user_profile' = batch_update(user_profile, u, updates, clock)
  /\ ret' = [op |-> "batch_update", user |-> u]
  /\ UNCHANGED <<writers, memory_services, graph, clock, focusVars, ctxVars, turns, chat_logs, traces>>

\* POST /profile/{user_id}/extract
ExtractSlots(u, ok, extracted, reply) ==
  /\ user_profile' = extract_slots(user_profile, u, ok, extracted, reply, clock)
  /\ ret' = [op |-> "extract_slots", user |-> u]
  /\ UNCHANGED <<writers, memory_services, graph, clock, focusVars, ctxVars, turns, chat_logs, traces>>

\* DELETE /profile/{user_id}
ClearProfile(u) ==
  /\ user_profile' = clear_profile(user_profile, u)
  /\ ret' = [op |-> "clear_profile", user |-> u]
  /\ UNCHANGED <<writers, memory_services, graph, clock, focusVars, ctxVars, turns, chat_logs, traces>>

\* ------------------------------------------------ the memory graph's operations

\* the user whose graph is written and read
GraphUsers == {"u1"}
MaxEdges == 2
MaxEpisodes == 2
Relations == {"LIKES", "HAS", "MENTIONS"}
\* valid_at of an extracted edge: unknown, or one of two instants
EdgeInstants == {NoTime, 0, 1}
\* the edges one ingestion adds: none, or one
AddedEdges == {<<>>} \cup {<<NewEdge(r, v, NoTime)>> : r \in Relations, v \in EdgeInstants}

\* an ingestion into u's graph within the bounds
Ingestible(u, added) ==
  /\ graph[u].episodes < MaxEpisodes
  /\ Len(graph[u].edges) + Len(added) <= MaxEdges

\* _process_chat_background and pollute_memory: add_memory_item(user_id, content)
AddMemoryItem(u, raises, added, inv) ==
  /\ Ingestible(u, added)
  /\ graph' = [graph EXCEPT ![u] = store(@, raises, added, inv, clock)]
  /\ ret' = [op |-> "add_memory_item", user |-> u, success |-> ~raises]
  /\ UNCHANGED <<writers, memory_services, clock, focusVars, ctxVars, turnVars>>

\* POST /memory/{user_id}/store: smart_store
SmartStore(u, reply, raises, added, inv) ==
  /\ Ingestible(u, added)
  /\ graph' = [graph EXCEPT ![u] = smart_store(@, reply, raises, added, inv, clock)]
  /\ ret' = [op |-> "smart_store", user |-> u, reply |-> reply,
             should_store |-> should_store(reply),
             stored_count |-> IF should_store(reply) /\ ~raises THEN 1 ELSE 0]
  /\ UNCHANGED <<writers, memory_services, clock, focusVars, ctxVars, turnVars>>

\* POST /memory/{user_id}/retrieve: retrieve (a search of a graph without edges
\* has no results)
Retrieve(u, reply, found) ==
  /\ graph[u].edges = <<>> => found.results = <<>>
  /\ ret' = [op |-> "retrieve", user |-> u, reply |-> reply, found |-> found,
             result |-> retrieve(reply, found)]
  /\ UNCHANGED <<writers, memory_services, graph, clock, focusVars, ctxVars, turnVars>>

\* GET /memory/{user_id}: list_memories over get_all
ListMemories(u, raises) ==
  /\ ret' = [op |-> "list_memories", user |-> u, raises |-> raises,
             response |-> list_memories(get_all(graph[u], raises))]
  /\ UNCHANGED <<writers, memory_services, graph, clock, focusVars, ctxVars, turnVars>>

\* DELETE /memory/{user_id}: clear
ClearMemories(u, raises) ==
  /\ graph' = [graph EXCEPT ![u] = clear(@, raises)]
  /\ ret' = [op |-> "clear_memories", user |-> u, success |-> ~raises]
  /\ UNCHANGED <<writers, memory_services, clock, focusVars, ctxVars, turnVars>>

\* ================================================ the turn orchestrator

\* ChatLogService.log_messages: one row per message
log_messages(logs, u, msgs) ==
  logs \o [i \in 1..Len(msgs) |-> [user_id |-> u, message |-> msgs[i]]]

\* TraceService.record_trace: INSERT INTO traces; the trace_id is the row's number
record_trace(trs, u) ==
  Append(trs, [trace_id |-> Len(trs) + 1, user_id |-> u, new_memories |-> 0])

\* TraceService.update_trace_memories: UPDATE traces SET new_memories = ? WHERE trace_id = ?
\* (new_memories is held as the number of entries of the list, at most 1: the
\* list is empty or it is not)
update_trace_memories(trs, trace_id, n) ==
  [i \in 1..Len(trs) |->
     IF trs[i].trace_id = trace_id THEN [trs[i] EXCEPT !.new_memories = IF n > 0 THEN 1 ELSE 0] ELSE trs[i]]

\* clear_chat_history: service.clear_history(user_id) names a method that
\* ChatLogService does not have; the AttributeError is caught and answered with
\* HTTP 500, and no statement has run on chat_logs
clear_chat_history(logs, u) == logs

\* DELETE /chat/{user_id}/history
ClearChatHistory(u) ==
  /\ chat_logs' = clear_chat_history(chat_logs, u)
  /\ ret' = [op |-> "clear_chat_history", user |-> u, status |-> 500]
  /\ UNCHANGED <<writers, memory_services, graph, clock, focusVars, ctxVars, turns, traces, user_profile>>

\* chat_interact: the guidance block of the prompt, None when the prompt has none
whisper_block(whisper_suggestion) ==
  IF whisper_suggestion # None /\ whisper_suggestion # "" THEN whisper_suggestion ELSE None

\* chat_interact up to its first await: the request's locals after get_context
NewTurn(u, context_data) ==
  [user |-> u, pc |-> "retrieve", context_data |-> context_data,
   wid |-> NoId, guidance |-> None,
   pending |-> {}, queue_len |-> 0,
   msgs |-> <<>>, trace_id |-> NoId,
   items |-> 0, slot_updates |-> <<>>, recent_focus |-> <<>>,
   recent_history |-> <<>>, saved |-> NoId,
   decision_failed |-> FALSE, search_failed |-> FALSE, memory_block |-> <<>>]

\* chat_interact, (c) and (d) and the prompt: get_all_slots (a read, whose block of
\* the prompt is left out), get_latest_whisper, then the request waits for the chat
\* model. decision_failed and search_failed are history: the except branch of
\* should_retrieve, and that of search, was taken in this request. pending and queue_len are history: the unconsumed whispers of the user,
\* and the rows of the table, at this read.
Prepare(tr) ==
  LET u == tr.user
      id == LatestUnconsumed(whisper_suggestions, u)
  IN [tr EXCEPT !.pc = "llm",
                !.wid = id,
                !.guidance = whisper_block(WhisperText(whisper_suggestions, id)),
                !.pending = Unconsumed(whisper_suggestions, u),
                !.queue_len = Len(whisper_suggestions)]

\* the whisper table and the history of shadowed rows after the read of Prepare
PrepareWhispers(u) ==
  /\ whisper_suggestions' = get_latest_whisper(whisper_suggestions, u)
  /\ shadowed' = shadowed \cup (Unconsumed(whisper_suggestions, u)
                                  \ {LatestUnconsumed(whisper_suggestions, u)})

\* POST /chat/{user_id}/interact arrives: get_context, then memory_service.retrieve.
\* retrieve suspends the request only when the decision agent asks for a graph
\* search; otherwise the request runs on to the chat-model call.
TurnStart(u, llm, reply) ==
  LET row == get_context(user_context[u], clock, llm)
      tr == [NewTurn(u, ContextResult(row)) EXCEPT
               !.decision_failed = DecisionFailed(reply)]
  IN /\ user_context' = [user_context EXCEPT ![u] = row]
     /\ IF should_retrieve(reply)
        THEN /\ turns' = Append(turns, tr)
             /\ UNCHANGED <<whisper_suggestions, shadowed>>
        ELSE /\ turns' = Append(turns, Prepare(tr))
             /\ PrepareWhispers(u)
     /\ ret' = NoRet
     /\ UNCHANGED <<writers, memory_services, graph, clock, user_focus, last_append_at, next_msg, chat_logs,
                    traces, user_profile>>

\* the graph search of retrieve returns (search catches its errors), and the
\* memory block of the prompt is made of its memories
TurnRetrieved(t, found) ==
  /\ turns[t].pc = "retrieve"
  /\ turns' = [turns EXCEPT ![t] =
                 Prepare([@ EXCEPT !.search_failed = found.raises,
                                   !.memory_block = memory_block(search(found))])]
  /\ PrepareWhispers(turns[t].user)
  /\ ret' = NoRet
  /\ UNCHANGED <<writers, memory_services, graph, clock, user_focus, ctxVars, chat_logs, traces, user_profile>>

\* the chat model answers: log_messages, append_message, record_trace, add_task
TurnReplied(t) ==
  LET u == turns[t].user
      chat_msgs == NewMessages(2)
  IN /\ turns[t].pc = "llm"
     /\ chat_logs' = log_messages(chat_logs, u, chat_msgs)
     /\ user_context' = [user_context EXCEPT ![u] = append_message(@, chat_msgs, clock)]
     /\ next_msg' = next_msg + 2
     /\ last_append_at' = [last_append_at EXCEPT ![u] = clock]
     /\ traces' = record_trace(traces, u)
     /\ turns' = [turns EXCEPT ![t] = [@ EXCEPT !.pc = "responded",
                                                !.msgs = chat_msgs,
                                                !.trace_id = Len(traces) + 1]]
     /\ ret' = NoRet
     /\ UNCHANGED <<writers, memory_services, graph, clock, focusVars, user_profile>>

\* the writes of step (a) that can fail: log_message of each of the two
\* messages (it catches the error and logs it), and append_message (it re-raises)
WriteFaults ==
  [log : SUBSET {1, 2}, append : BOOLEAN] \ {[log |-> {}, append |-> FALSE]}

\* log_messages when log_message fails for the messages numbered in failed
log_messages_failing(logs, u, msgs, failed) ==
  log_messages(logs, u, SelectSeq(msgs, LAMBDA m : \A i \in failed : msgs[i] # m))

\* the chat model answers and a write of step (a) fails. A failed log_message
\* is swallowed and the handler goes on; a failed append_message reaches the
\* handler's except, which answers HTTP 500: no trace, no background task.
TurnWriteFailed(t, fault) ==
  LET u == turns[t].user
      chat_msgs == NewMessages(2)
  IN /\ turns[t].pc = "llm"
     /\ chat_logs' = log_messages_failing(chat_logs, u, chat_msgs, fault.log)
     /\ next_msg' = next_msg + 2
     /\ IF fault.append
        THEN /\ turns' = [turns EXCEPT ![t] = [@ EXCEPT !.pc = "failed",
                                                        !.msgs = chat_msgs]]
             /\ UNCHANGED <<user_context, last_append_at, traces>>
        ELSE /\ user_context' =
                  [user_context EXCEPT ![u] = append_message(@, chat_msgs, clock)]
             /\ last_append_at' = [last_append_at EXCEPT ![u] = clock]
             /\ traces' = record_trace(traces, u)
             /\ turns' = [turns EXCEPT ![t] = [@ EXCEPT !.pc = "responded",
                                                        !.msgs = chat_msgs,
                                                        !.trace_id = Len(traces) + 1]]
     /\ ret' = NoRet
     /\ UNCHANGED <<writers, memory_services, graph, clock, focusVars, user_profile>>

\* the chat-model call raises: the except branch answers HTTP 500
TurnFailed(t) ==
  /\ turns[t].pc = "llm"
  /\ turns' = [turns EXCEPT ![t] = [@ EXCEPT !.pc = "failed"]]
  /\ ret' = NoRet
  /\ UNCHANGED <<writers, memory_services, graph, clock, focusVars, ctxVars, chat_logs, traces, user_profile>>

\* ------------------------------------------------ the background tail

\* slot_updates of an extraction result: the list of {"slot", "value"} updates
SlotUpdates == {<<>>, <<[slot |-> "nickname", value |-> Str("x")]>>}
\* recent_focus of an extraction result: the items, in order, each with its
\* content and its expected_date (NoDate when the item has none)
FocusLists == {<<>>, <<[content |-> "a", expected_date |-> NoDate]>>}
\* used_focus_id of a planner's reply that has none (null)
NoUsed == 0 - 1
\* what WhispererAgent.create_suggestion returns: (None, None), or a text with the
\* used_focus_id the planner model named (null, or the id of a row or of none)
NoPlan == [inject |-> None, used |-> NoUsed]
Plans == {NoPlan} \cup [inject : Texts, used : {NoUsed} \cup (1..MaxFocus)]

\* (mutant) a loop over recent_focus that adds nothing
add_focus_all_dropped(rows, u, list, now) == rows

\* _process_chat_background, the loop over recent_focus: add_focus(user_id, content)
RECURSIVE add_focus_all(_, _, _, _)
add_focus_all(rows, u, list, now) ==
  IF list = <<>> THEN rows
  ELSE add_focus_all(add_focus(rows, u, Head(list).content, NoDate, now),
                     u, Tail(list), now)

\* the rule with fewer than 2 messages
empty_workload_below_two(active_focus, current_profile, recent_history) ==
  /\ active_focus = <<>>
  /\ current_profile = NoSlots
  /\ Len(recent_history) < 2

\* _process_chat_background, the skip rule of the whisper step:
\* not active_focus and not current_profile and len(recent_history) <= 2
empty_workload(active_focus, current_profile, recent_history) ==
  /\ active_focus = <<>>
  /\ current_profile = NoSlots
  /\ Len(recent_history) <= 2

\* _process_chat_background from profile_service.batch_update to its end, for the
\* request tr whose tail has brought user_focus to rows: the profile update, then
\* the whisper step (get_active_focus_with_time, get_all_slots, the skip rule,
\* create_suggestion, save_whisper_suggestion, mark_focus_injected). With rec the
\* history of the tail is kept in ret: whether the planner was invoked, what it
\* was handed and what it returned, what the tail then saved and marked.
TailFinish(t, tr, rows, plan, rec) ==
  LET u == tr.user
      profile == batch_update(user_profile, u, tr.slot_updates, clock)
      active_focus == get_active_focus_with_time(rows, u, clock)
      current_profile == get_all_slots(profile, u)
      skip == empty_workload(active_focus, current_profile, tr.recent_history)
      save == ~skip /\ plan.inject # None
      mark == save /\ plan.used # NoUsed /\ plan.used # 0
  IN /\ user_profile' = profile
     /\ ret' = IF ~rec THEN NoRet ELSE
               [op |-> "tail", user |-> u, turn |-> t, planned |-> ~skip,
                plan |-> IF skip THEN NoPlan ELSE plan,
                active_focus |-> active_focus, current_profile |-> current_profile,
                recent_history |-> tr.recent_history,
                slot_updates |-> tr.slot_updates, recent_focus |-> tr.recent_focus,
                saved |-> save, marked |-> IF mark THEN plan.used ELSE NoId]
     /\ whisper_suggestions' =
          IF save
          THEN save_whisper_suggestion(whisper_suggestions, u, plan.inject, clock)
          ELSE whisper_suggestions
     /\ user_focus' = IF mark THEN mark_focus_injected(rows, plan.used, clock) ELSE rows
     /\ turns' = [turns EXCEPT ![t] =
                    [tr EXCEPT !.pc = "done", !.items = 0, !.slot_updates = <<>>,
                               !.recent_focus = <<>>, !.recent_history = <<>>,
                               !.saved = IF save THEN Len(whisper_suggestions) + 1
                                         ELSE NoId]]

\* the background task of a reply starts: get_context, analyze_query, add_focus and
\* the trace update; with memory items it then waits for the first add_memory_item,
\* without it runs on to its end
TailStart(t, llm, items, slot_updates, recent_focus, plan, rec) ==
  LET u == turns[t].user
      row == get_context(user_context[u], clock, llm)
      rows == add_focus_all(user_focus, u, recent_focus, clock)
      trace_updates == items + Len(recent_focus) + Len(slot_updates)
      tr == [turns[t] EXCEPT !.items = items, !.slot_updates = slot_updates,
                             !.recent_focus = IF rec THEN recent_focus ELSE <<>>,
                             !.recent_history = ContextResult(row).history]
  IN /\ turns[t].pc = "responded"
     /\ Len(rows) <= MaxFocus
     /\ user_context' = [user_context EXCEPT ![u] = row]
     /\ traces' = IF trace_updates > 0
                  THEN update_trace_memories(traces, tr.trace_id, trace_updates)
                  ELSE traces
     /\ IF items > 0
        THEN /\ turns' = [turns EXCEPT ![t] = [tr EXCEPT !.pc = "episode"]]
             /\ user_focus' = rows
             /\ ret' = NoRet
             /\ UNCHANGED <<whisper_suggestions, user_profile>>
        ELSE TailFinish(t, tr, rows, plan, rec)
     /\ UNCHANGED <<writers, memory_services, graph, clock, shadowed, last_append_at, next_msg, chat_logs>>

\* the background task of a request whose user_query was empty returns at once
TailNoQuery(t) ==
  /\ turns[t].pc = "responded"
  /\ turns' = [turns EXCEPT ![t] = [@ EXCEPT !.pc = "done"]]
  /\ ret' = NoRet
  /\ UNCHANGED <<writers, memory_services, graph, clock, focusVars, ctxVars, chat_logs, traces, user_profile>>

\* one add_memory_item returns (it catches its errors; its write to the graph is
\* the action AddMemoryItem, and a request sees the graph only as the outcome of
\* its search); after the last one the task runs on to its end
TailEpisodeDone(t, plan, rec) ==
  LET u == turns[t].user
      tr == [turns[t] EXCEPT !.items = @ - 1]
  IN /\ turns[t].pc = "episode"
     /\ IF tr.items > 0
        THEN /\ turns' = [turns EXCEPT ![t] = tr]
             /\ ret' = NoRet
             /\ UNCHANGED <<user_focus, whisper_suggestions, user_profile>>
        ELSE TailFinish(t, tr, user_focus, plan, rec)
     /\ UNCHANGED <<writers, memory_services, graph, clock, shadowed, ctxVars, chat_logs, traces>>

\* ---- the extraction agent ----

\* the slots the extraction prompt defines
ALLOWED_SLOTS == {"nickname", "occupation", "hobbies", "response_preference"}

\* a JSON value of the model's reply, by its type; a list carries its items
JsonList(items) == [kind |-> "list", items |-> items]
JsonOther(kind) == [kind |-> kind, items |-> <<>>]

\* an item of slot_updates that is not an object
NonObject == "non-object"

MaxSlotItems == 2
MaxMemoryItems == 1

\* the slot_updates field of a reply: absent, null, a string, or a list whose
\* items name a slot of the enum, name another slot, or are not objects
SlotItems == {"nickname", "occupation", "mood", NonObject}
ReplySlotFields ==
  {JsonOther("missing"), JsonOther("null"), JsonOther("string")}
    \cup {JsonList(q) : q \in UNION {[1..n -> SlotItems] : n \in 0..MaxSlotItems}}

\* the memory_items and recent_focus fields of a reply
ListFields ==
  {JsonOther(k) : k \in {"missing", "null", "number", "string", "object"}}
    \cup {JsonList(q) : q \in UNION {[1..n -> {"m"}] : n \in 0..MaxMemoryItems}}

\* what the chat completion call and json.loads make of one analysis
Replies ==
  {[kind |-> k, slot_updates |-> JsonList(<<>>), memory_items |-> JsonList(<<>>),
    recent_focus |-> JsonList(<<>>)] : k \in {"raises", "unparsable", "array"}}
    \cup [kind : {"object"}, slot_updates : ReplySlotFields, memory_items : ListFields,
          recent_focus : ListFields]

EmptyResult ==
  [slot_updates |-> JsonList(<<>>), memory_items |-> JsonList(<<>>),
   recent_focus |-> JsonList(<<>>)]

\* Python's len() accepts the value
HasLen(v) == v.kind \in {"list", "string", "object"}

\* the loop over result["slot_updates"] ends without an exception: the value is
\* a list and item.get exists on each item
SlotLoopRuns(v) ==
  v.kind = "list" /\ \A i \in 1..Len(v.items) : v.items[i] # NonObject

\* a field the reply leaves out is set to []
OrEmpty(v) == IF v.kind = "missing" THEN JsonList(<<>>) ELSE v

\* ExtractionAgent.analyze_query: everything from the model call to the return
\* is in one try whose except returns the three empty lists. The final log line
\* takes len() of the three fields, so a field without a length also ends there.
analyze_query(reply) ==
  IF reply.kind # "object" THEN EmptyResult
  ELSE IF reply.slot_updates.kind # "missing" /\ ~SlotLoopRuns(reply.slot_updates)
    THEN EmptyResult
  ELSE IF ~HasLen(OrEmpty(reply.memory_items)) \/ ~HasLen(OrEmpty(reply.recent_focus))
    THEN EmptyResult
  ELSE [slot_updates |->
          JsonList(SelectSeq(OrEmpty(reply.slot_updates).items,
                             LAMBDA x : x \in ALLOWED_SLOTS)),
        memory_items |-> OrEmpty(reply.memory_items),
        recent_focus |-> OrEmpty(reply.recent_focus)]

\* one analysis of a turn
AnalyzeQuery(reply) ==
  /\ ret' = [op |-> "analyze_query", reply |-> reply, result |-> analyze_query(reply)]
  /\ UNCHANGED <<writers, memory_services, graph, clock, user_focus, whisper_suggestions, shadowed, ctxVars,
                 chat_logs, traces, user_profile, turns>>

\* the steps of the tail whose service lets a database error through (get_context
\* and _save_slots close the connection in a finally and have no except): the
\* error reaches the one try/except that wraps the whole of the tail
EscapingSteps == {"get_context", "batch_update"}

\* whether the tail goes on to its whisper step after this step raised: the
\* except of _process_chat_background logs the error and the task ends
reaches_whisper_step(step) == step \notin EscapingSteps

\* a step of the background task raises. get_context is the task's first call;
\* batch_update is called after the add_focus loop and the add_memory_item
\* calls, when there are slot updates. The task ends with what it wrote so far.
TailRaised(t, step, recent_focus) ==
  LET u == turns[t].user
      rows == add_focus_all(user_focus, u, recent_focus, clock)
  IN /\ step \in EscapingSteps
     /\ turns[t].pc = "responded"
     /\ Len(rows) <= MaxFocus
     /\ step = "get_context" => recent_focus = <<>>
     /\ user_focus' = rows
     /\ turns' = [turns EXCEPT ![t] = [@ EXCEPT !.pc = "done"]]
     /\ ret' = [op |-> "tail_raised", user |-> u, turn |-> t, step |-> step,
                planned |-> reaches_whisper_step(step)]
     /\ UNCHANGED <<writers, memory_services, graph, clock, whisper_suggestions, shadowed, ctxVars,
                    chat_logs, traces, user_profile>>

\* the outcomes of the summarizer call get_context makes on this row: none unless
\* the row has reached the compaction threshold
SummarizerOutcomes(row) ==
  IF row.present /\ needs_summary(AfterSessionRule(row, clock))
  THEN LlmOutcomes ELSE {"unused"}

\* the plans the whisper step of a task can be given: none is asked for while
\* memory items are still to be ingested
PlansWhen(last) == IF last THEN Plans ELSE {NoPlan}

vars == <<clock, user_focus, whisper_suggestions, user_context, ret, shadowed,
          last_append_at, next_msg, turns, chat_logs, traces, user_profile, graph,
          memory_services, writers>>

\* the expected_date values add_focus is called with: none, or day 0
ExpDates == {NoDate, 0}

NextFocus ==
  \/ FocusTick
  \/ \E u \in Users, c \in Contents, exp \in ExpDates : AddFocus(u, c, exp)
  \/ \E id \in 1..MaxFocus : MarkFocusInjected(id)
  \/ \E u \in Users, c \in Contents : ArchiveFocus(u, c)
  \/ \E u \in Users : ClearAllFocus(u)

SpecFocus == Init /\ [][NextFocus]_vars

NextWhisper ==
  \/ \E u \in Users, text \in Texts : SaveWhisper(u, text)
  \/ \E u \in Users : GetLatestWhisper(u)
  \/ \E u \in Users : PeekLatestWhisper(u)
  \/ \E u \in Users : ClearAllFocus(u)

SpecWhisper == Init /\ [][NextWhisper]_vars

NextContext ==
  \/ CtxTick
  \/ \E u \in CtxUsers, n \in BatchSizes : AppendMessage(u, n)
  \/ \E u \in CtxUsers, llm \in LlmOutcomes : GetContext(u, llm)
  \/ \E u \in CtxUsers : ClearContext(u)
  \/ \E u \in CtxUsers : ClearSummary(u)

SpecContext == Init /\ [][NextContext]_vars

\* the appends and reads of the context store, in every order. Every caller is
\* an async def that calls the synchronous service method without an await in
\* it, so a call runs from its SELECT to its commit before the next one starts.
NextAppend ==
  \/ CtxTick
  \/ \E u \in CtxUsers, n \in BatchSizes : AppendMessage(u, n)
  \/ \E u \in CtxUsers, llm \in LlmOutcomes : GetContext(u, llm)

SpecAppend == Init /\ [][NextAppend]_vars

\* the instants at which the focus and whisper reads are called, and the user who reads
ReadInstants == {0, 48}
ReadUsers == {"u1"}

ReadTick == Advance(ReadInstants) /\ ret' = NoRet /\ UNCHANGED <<writers, memory_services, graph, focusVars, ctxVars, turnVars>>

\* the reads of the focus and whisper store, among the writes that change their results
NextReads ==
  \/ ReadTick
  \/ \E u \in ReadUsers, c \in Contents, exp \in ExpDates : AddFocus(u, c, exp)
  \/ \E id \in 1..MaxFocus : MarkFocusInjected(id)
  \/ \E u \in ReadUsers : GetActiveFocus(u)
  \/ \E u \in ReadUsers, text \in Texts : SaveWhisper(u, text)
  \/ \E u \in ReadUsers : GetLatestWhisper(u)
  \/ \E u \in ReadUsers : PeekLatestWhisper(u)

SpecReads == Init /\ [][NextReads]_vars

\* DELETE /focus/{user_id} among the writes of two users
NextClear ==
  \/ \E u \in Users, c \in Contents : AddFocus(u, c, NoDate)
  \/ \E u \in Users : GetActiveFocus(u)
  \/ \E u \in Users : ClearAllFocus(u)
  \/ \E u \in Users, text \in Texts : SaveWhisper(u, text)
  \/ \E u \in Users : GetLatestWhisper(u)
  \/ \E u \in Users : PeekLatestWhisper(u)

SpecClear == Init /\ [][NextClear]_vars

\* the profile store alone
NextProfile ==
  \/ \E u \in ProfileUsers, key \in ProfileKeys, value \in ProfileValues :
       UpdateSlot(u, key, value)
  \/ \E u \in ProfileUsers, updates \in UpdateLists : BatchUpdate(u, updates)
  \/ \E u \in ProfileUsers, ok \in BOOLEAN, extracted \in ExtractedDicts :
       \E reply \in RepliesFor(u, extracted) : ExtractSlots(u, ok, extracted, reply)
  \/ \E u \in ProfileUsers : ClearProfile(u)

SpecProfile == Init /\ [][NextProfile]_vars

\* the users who chat; requests in all; memory items of one extraction result
TurnUsers == {"u1"}
\* the decisions of these requests: the model's answer is well formed, and the
\* graph search, when it is made, finds nothing
Decisions == {"true", "false"}
MaxTurns == 3
MaxItems == 1

Next ==
  \/ \E u \in TurnUsers, reply \in Decisions :
       \E llm \in SummarizerOutcomes(user_context[u]) :
         Len(turns) < MaxTurns /\ TurnStart(u, llm, reply)
  \/ \E t \in 1..Len(turns) : TurnRetrieved(t, NoHits)
  \/ \E t \in 1..Len(turns) : TurnReplied(t)
  \/ \E t \in 1..Len(turns) : TurnFailed(t)
  \/ \E t \in 1..Len(turns), items \in 0..MaxItems, slot_updates \in SlotUpdates,
        recent_focus \in FocusLists :
       \E llm \in SummarizerOutcomes(user_context[turns[t].user]),
          plan \in PlansWhen(items = 0) :
         TailStart(t, llm, items, slot_updates, recent_focus, plan, FALSE)
  \/ \E t \in 1..Len(turns) : TailNoQuery(t)
  \/ \E t \in 1..Len(turns) :
       \E plan \in PlansWhen(turns[t].items = 1) : TailEpisodeDone(t, plan, FALSE)

Spec == Init /\ [][Next]_vars

\* the requests of two users: the turn orchestrator run for every user, with
\* fewer requests in all; ret keeps the record of the tail that ended last
IsoTurns == 2
\* os.environ["ENABLE_WHISPERER"] of the process that serves these requests
ENABLE_WHISPERER == "false"
\* the planner's returns of these requests: also a used_focus_id of 0
TailPlans == Plans \cup [inject : Texts, used : {0}]
TailPlansWhen(last) == IF last THEN TailPlans ELSE {NoPlan}
\* recent_focus of these requests: also an item that carries an expected_date
TailFocusLists == FocusLists \cup {<<[content |-> "b", expected_date |-> 0]>>}

NextIsolation ==
  \/ \E u \in Users, reply \in Decisions :
       \E llm \in SummarizerOutcomes(user_context[u]) :
         Len(turns) < IsoTurns /\ TurnStart(u, llm, reply)
  \/ \E t \in 1..Len(turns) : TurnRetrieved(t, NoHits)
  \/ \E t \in 1..Len(turns) : TurnReplied(t)
  \/ \E t \in 1..Len(turns) : TurnFailed(t)
  \/ \E t \in 1..Len(turns), items \in 0..MaxItems, slot_updates \in SlotUpdates,
        recent_focus \in TailFocusLists :
       \E llm \in SummarizerOutcomes(user_context[turns[t].user]),
          plan \in TailPlansWhen(items = 0) :
         TailStart(t, llm, items, slot_updates, recent_focus, plan, TRUE)
  \/ \E t \in 1..Len(turns) : TailNoQuery(t)
  \/ \E t \in 1..Len(turns) :
       \E plan \in TailPlansWhen(turns[t].items = 1) : TailEpisodeDone(t, plan, TRUE)

SpecIsolation == Init /\ [][NextIsolation]_vars

\* the requests of a user whose tails have up to TailItems memory items to ingest;
\* ret keeps the record of the tail
TailItems == 2
TailTurns == 2

NextTail ==
  \/ \E u \in TurnUsers, reply \in Decisions :
       \E llm \in SummarizerOutcomes(user_context[u]) :
         Len(turns) < TailTurns /\ TurnStart(u, llm, reply)
  \/ \E t \in 1..Len(turns) : TurnRetrieved(t, NoHits)
  \/ \E t \in 1..Len(turns) : TurnReplied(t)
  \/ \E t \in 1..Len(turns), items \in 0..TailItems, slot_updates \in SlotUpdates,
        recent_focus \in TailFocusLists :
       \E llm \in SummarizerOutcomes(user_context[turns[t].user]),
          plan \in TailPlansWhen(items = 0) :
         TailStart(t, llm, items, slot_updates, recent_focus, plan, TRUE)
  \/ \E t \in 1..Len(turns) :
       \E plan \in TailPlansWhen(turns[t].items = 1) : TailEpisodeDone(t, plan, TRUE)

SpecTail == Init /\ [][NextTail]_vars

\* the same requests, with database errors in the tails
NextFaults ==
  \/ NextTail
  \/ \E t \in 1..Len(turns), step \in EscapingSteps, recent_focus \in TailFocusLists :
       TailRaised(t, step, recent_focus)

SpecFaults == Init /\ [][NextFaults]_vars

\* the profile writes of the server and of the scheduler, for one user
NextOverlap ==
  \/ \E p \in Processes, u \in ProfileUsers, updates \in OverlapUpdates :
       BatchUpdateRead(p, u, updates)
  \/ \E p \in Processes : BatchUpdateSave(p)

SpecOverlap == Init /\ [][NextOverlap]_vars

\* requests whose writes of the turn's messages may fail
WriteTurns == 3
NextWrites ==
  \/ \E u \in TurnUsers, reply \in Decisions :
       \E llm \in SummarizerOutcomes(user_context[u]) :
         Len(turns) < WriteTurns /\ TurnStart(u, llm, reply)
  \/ \E t \in 1..Len(turns) : TurnRetrieved(t, NoHits)
  \/ \E t \in 1..Len(turns) : TurnReplied(t)
  \/ \E t \in 1..Len(turns), fault \in WriteFaults : TurnWriteFailed(t, fault)

SpecWrites == Init /\ [][NextWrites]_vars

\* the graph calls of the two routers
NextHandles == \E r \in Routers, u \in Users : GetGraphForUser(r, u)

SpecHandles == Init /\ [][NextHandles]_vars

\* the structured calls of the graph library
NextGateway ==
  \E messages \in Prompts, response_model \in ResponseModels, max_tokens \in MaxTokens :
    GenerateResponse(messages, response_model, max_tokens)

SpecGateway == Init /\ [][NextGateway]_vars

\* the analyses of the extraction agent
NextExtraction == \E reply \in Replies : AnalyzeQuery(reply)

SpecExtraction == Init /\ [][NextExtraction]_vars

\* the memory endpoints of one user: ingestions, the two decisions, the list
\* and the clear
NextMemory ==
  \/ \E u \in GraphUsers, raises \in BOOLEAN, added \in AddedEdges, inv \in 0..MaxEdges :
       AddMemoryItem(u, raises, added, inv)
  \/ \E u \in GraphUsers, reply \in DecisionReplies, raises \in BOOLEAN,
        added \in AddedEdges, inv \in 0..MaxEdges :
       SmartStore(u, reply, raises, added, inv)
  \/ \E u \in GraphUsers, reply \in DecisionReplies, found \in SearchOutcomes :
       Retrieve(u, reply, found)
  \/ \E u \in GraphUsers, raises \in BOOLEAN : ListMemories(u, raises)
  \/ \E u \in GraphUsers, raises \in BOOLEAN : ClearMemories(u, raises)

SpecMemory == Init /\ [][NextMemory]_vars

\* one request of a user, an ingestion into the user's graph, and the five clear
\* endpoints
PurgeTurns == 1

NextPurge ==
  \/ \E u \in TurnUsers :
       \E llm \in SummarizerOutcomes(user_context[u]) :
         Len(turns) < PurgeTurns /\ TurnStart(u, llm, "false")
  \/ \E t \in 1..Len(turns) : TurnReplied(t)
  \/ \E t \in 1..Len(turns), slot_updates \in SlotUpdates, recent_focus \in FocusLists :
       \E llm \in SummarizerOutcomes(user_context[turns[t].user]), plan \in Plans :
         TailStart(t, llm, 0, slot_updates, recent_focus, plan, FALSE)
  \/ \E u \in TurnUsers : AddMemoryItem(u, FALSE, <<NewEdge("LIKES", 0, NoTime)>>, 0)
  \/ \E u \in TurnUsers : ClearContext(u)
  \/ \E u \in TurnUsers : ClearProfile(u)
  \/ \E u \in TurnUsers : ClearAllFocus(u)
  \/ \E u \in TurnUsers : ClearChatHistory(u)
  \/ \E u \in TurnUsers : ClearMemories(u, FALSE)

SpecPurge == Init /\ [][NextPurge]_vars

\* the requests of one user with every outcome of the retrieval decision and of
\* the graph search; the tails extract nothing
RetrievalTurns == 2

NextRetrieval ==
  \/ \E u \in TurnUsers, reply \in DecisionReplies :
       \E llm \in SummarizerOutcomes(user_context[u]) :
         Len(turns) < RetrievalTurns /\ TurnStart(u, llm, reply)
  \/ \E t \in 1..Len(turns), found \in SearchOutcomes : TurnRetrieved(t, found)
  \/ \E t \in 1..Len(turns) : TurnReplied(t)
  \/ \E t \in 1..Len(turns) : TurnFailed(t)
  \/ \E t \in 1..Len(turns) :
       \E llm \in SummarizerOutcomes(user_context[turns[t].user]) :
         TailStart(t, llm, 0, <<>>, <<>>, NoPlan, FALSE)
  \/ \E t \in 1..Len(turns) : TailNoQuery(t)

SpecRetrieval == Init /\ [][NextRetrieval]_vars

\* ================================================= the context claims

\* the rounds held by a list of messages (one round: a user and an assistant message)
Rounds(msgs) == Len(msgs) \div 2

\* C6: immediately after any get_context call that returned, the recent buffer stored
\* and returned holds fewer rounds than the compaction threshold, whatever the
\* summarizer did.
C6_ContextBound ==
  ret.op = "get_context" =>
    /\ Rounds(ret.val.history) < max_history_rounds
    /\ Rounds(user_context[ret.user].recent_messages) < max_history_rounds

\* C7: a get_context more than T_session after the last append returns an empty
\* summary, and the session rule alone leaves recent unchanged, whatever reads
\* (compacting ones included) happened in between.
C7_SessionExpiry ==
  (/\ ret.op = "get_context"
   /\ last_append_at[ret.user] # NoTime
   /\ ret.at - last_append_at[ret.user] > session_timeout_hours)
  => /\ ret.val.summary = ""
     /\ AfterSessionRule(ret.before, ret.at).recent_messages
          = ret.before.recent_messages

\* C7 as amended: the session rule is relative to the row's updated_at, which an
\* append and a compaction both set. A get_context more than T_session after
\* updated_at, with a summary stored, clears the summary and leaves recent to the
\* compaction test; the summary returned is then empty unless this same call
\* compacts with success, and then it is the summarizer's text. A get_context
\* within T_session of updated_at that does not compact returns the stored summary.
C7_SessionExpiryByUpdatedAt ==
  ret.op = "get_context" /\ ret.before.present =>
    LET row == ret.before
        late == row.updated_at # NoTime
                /\ ret.at - row.updated_at > session_timeout_hours
        now_row == user_context[ret.user]
    IN /\ ret.val.summary = now_row.summary
       /\ (ret.llm = "unused") =>
            /\ now_row.recent_messages = row.recent_messages
            /\ now_row.updated_at = row.updated_at
            /\ now_row.summary = IF late THEN "" ELSE row.summary
       /\ (late /\ ret.llm = "raise") => now_row.summary = ""
       /\ (ret.llm \in SummaryTexts) => now_row.summary = ret.llm

\* C7's case: a read found a stored summary older than the timeout and cleared it
C7_Witness ==
  /\ ret.op = "get_context"
  /\ ret.before.present /\ ret.before.summary # ""
  /\ ret.at - ret.before.updated_at > session_timeout_hours
  /\ ret.llm = "unused"
  /\ ret.val.summary = ""
  /\ ret.val.history = ret.before.recent_messages /\ ret.val.history # <<>>

\* C8: when get_context finds rounds >= R, afterwards the stored and returned
\* summary is the newly produced one and recent is exactly the last two messages
\* of the previous recent, in order.
C8_Compaction ==
  (ret.op = "get_context" /\ ret.before.present
     /\ Rounds(ret.before.recent_messages) >= max_history_rounds)
  => /\ ret.llm \in SummaryTexts
     /\ ret.val.summary = ret.llm
     /\ user_context[ret.user].summary = ret.llm
     /\ ret.val.history = LastTwo(ret.before.recent_messages)
     /\ user_context[ret.user].recent_messages = LastTwo(ret.before.recent_messages)

\* =================================================== the focus claims

\* the ids a get_active result lists
ResultIds(res) == {res[k].id : k \in 1..Len(res)}

\* C9's expiry rule: a deadline plus one day of grace, else 14 days from creation
C9_Expired(f, now) ==
  \/ f.expected_date # NoDate /\ Date(now) > f.expected_date + 1
  \/ f.expected_date = NoDate
       /\ Date(now) > Date(f.created_at) + DEFAULT_FOCUS_TTL_DAYS

\* C9's cooldown rule
C9_Cooling(f, now) ==
  f.last_injected_at # NoTime /\ ~(now >= f.last_injected_at + INJECTION_COOLDOWN_HOURS)

\* C9: get_active(u) at time now returns f if and only if f belongs to u, is active,
\* is not expired at now and is not in cooldown; it lists no item twice.
C9_Visibility ==
  \A u \in Users :
    LET res == get_active_focus_with_time(user_focus, u, clock) IN
    /\ ResultIds(res) =
         {user_focus[i].id : i \in {j \in 1..Len(user_focus) :
            /\ user_focus[j].user_id = u
            /\ user_focus[j].status = "active"
            /\ ~C9_Expired(user_focus[j], clock)
            /\ ~C9_Cooling(user_focus[j], clock)}}
    /\ Cardinality(ResultIds(res)) = Len(res)

\* C9's case: at this instant get_active leaves out an active item of the user, not
\* cooling, because its deadline passed more than a day ago
C9_Witness ==
  \E i \in 1..Len(user_focus) :
    /\ user_focus[i].status = "active"
    /\ user_focus[i].last_injected_at = NoTime
    /\ user_focus[i].expected_date # NoDate
    /\ Date(clock) > user_focus[i].expected_date + 1
    /\ get_active_focus_with_time(user_focus, user_focus[i].user_id, clock) = <<>>

\* C10: after mark_injected(f) at t0, every read before t0 + 12 h leaves f out and
\* every read at or after t0 + 12 h lists it, while f is active and unexpired and
\* has not been marked again (the read is get_active at the current instant).
C10_Cooldown ==
  \A i \in 1..Len(user_focus) :
    LET f == user_focus[i]
        read == get_active_focus_with_time(user_focus, f.user_id, clock)
    IN (/\ f.last_injected_at # NoTime
        /\ f.status = "active"
        /\ ~C9_Expired(f, clock))
       => /\ clock < f.last_injected_at + INJECTION_COOLDOWN_HOURS
               => f.id \notin ResultIds(read)
          /\ clock >= f.last_injected_at + INJECTION_COOLDOWN_HOURS
               => f.id \in ResultIds(read)

\* C10's case: 12 hours or more after the mark, get_active lists the marked item again
C10_Witness ==
  \E i \in 1..Len(user_focus) :
    /\ user_focus[i].last_injected_at # NoTime
    /\ clock >= user_focus[i].last_injected_at + INJECTION_COOLDOWN_HOURS
    /\ user_focus[i].id \in
         ResultIds(get_active_focus_with_time(user_focus, user_focus[i].user_id, clock))

\* ================================================= the whisper claims

\* C3: a consume never returns a whisper that was pending, but not the newest, at an
\* earlier consume; and right after a consume that returned a text, a second consume
\* (no save_whisper between) returns none.
C3_NewestOnly ==
  ret.op = "get_latest_whisper" =>
    /\ ret.id \notin shadowed
    /\ ret.val # None => LatestUnconsumed(whisper_suggestions, ret.user) = NoId

\* =============================================== the orchestrator claims

\* the synchronous path of request t is under way: it has made its first store read
\* and has neither appended its messages nor failed
InSync(t) == turns[t].pc \in {"retrieve", "llm"}

\* request t has read the whisper queue
ReadDone(t) == turns[t].pc # "retrieve"

\* the request of the same user that started last before request j (0: none)
Prev(j) ==
  LET s == {i \in 1..(j - 1) : turns[i].user = turns[j].user} IN
  IF s = {} THEN 0 ELSE CHOOSE i \in s : \A k \in s : k <= i

\* the messages a list holds
Range(seq) == {seq[k] : k \in 1..Len(seq)}

\* C1: the synchronous paths of two turns of a user never overlap: when turn n+1
\* has made its first store read, the synchronous path of turn n is complete, and
\* the get_context of turn n+1 holds the messages turn n appended.
C1_Serialized ==
  \A j \in 1..Len(turns) :
    Prev(j) # 0 =>
      /\ ~InSync(Prev(j))
      /\ Range(turns[Prev(j)].msgs) \subseteq Range(turns[j].context_data.history)

\* the newest of a set of whisper ids
Newest(p) == CHOOSE w \in p : \A x \in p : x <= w

\* C2: at the read of the whisper queue the prompt has a guidance section if and
\* only if an unconsumed whisper of the user exists then, with that whisper's text;
\* and the whisper saved by the tail of turn n is injected into turn n+1 exactly
\* when it was saved before turn n+1 read the queue, turn n+1 otherwise proceeding
\* without guidance.
C2_NPlusOne ==
  \A j \in 1..Len(turns) :
    ReadDone(j) =>
      LET p == turns[j].pending IN
      /\ (turns[j].guidance # None) <=> (p # {})
      /\ p # {} => turns[j].guidance = whisper_suggestions[Newest(p)].suggestion
      /\ Prev(j) # 0 =>
           LET s == turns[Prev(j)].saved IN
           IF s # NoId /\ s <= turns[j].queue_len
           THEN turns[j].wid = s
           ELSE turns[j].guidance = None

\* C2 as amended: at the read of the whisper queue the prompt has a guidance
\* section if and only if an unconsumed whisper of the user exists then, and its
\* text is that of the newest of them, which the read marks consumed; the whisper
\* saved by the tail of turn n is injected into turn n+1 exactly when it is the
\* newest unconsumed whisper of the user at that read. Otherwise turn n+1 is given
\* the newest other unconsumed whisper (one of an earlier tail), and proceeds
\* without guidance only when there is none.
C2_NewestPending ==
  \A j \in 1..Len(turns) :
    ReadDone(j) =>
      LET p == turns[j].pending IN
      /\ (turns[j].guidance # None) <=> (p # {})
      /\ p = {} => turns[j].wid = NoId
      /\ p # {} =>
           /\ turns[j].wid = Newest(p)
           /\ turns[j].guidance = whisper_suggestions[Newest(p)].suggestion
           /\ whisper_suggestions[Newest(p)].is_consumed = 1
      /\ (Prev(j) # 0 /\ turns[Prev(j)].saved # NoId) =>
           LET s == turns[Prev(j)].saved IN
           (turns[j].wid = s) <=> (s \in p /\ \A x \in p : x <= s)

\* C2's case: turn n+1 read the queue while two whispers were pending, and was given
\* the one the tail of turn n had saved
C2_Witness ==
  \E j \in 1..Len(turns) :
    /\ ReadDone(j) /\ Prev(j) # 0
    /\ Cardinality(turns[j].pending) = 2
    /\ turns[j].wid = turns[Prev(j)].saved
    /\ turns[j].guidance \in Texts

\* C4: under any interleaving of the requests of a user, each whisper row is
\* returned to at most one of them.
C4_ConsumeOnce ==
  \A i, j \in 1..Len(turns) :
    (i # j /\ turns[i].wid # NoId) => turns[i].wid # turns[j].wid

\* C4's case: two requests of a user are under way together; the later one was
\* given a whisper, and the earlier one, reading the queue after it, was given none
C4_Witness ==
  \E i, j \in 1..Len(turns) :
    /\ i < j /\ turns[i].user = turns[j].user
    /\ turns[i].pc = "llm" /\ turns[j].pc = "llm"
    /\ turns[j].wid # NoId
    /\ turns[i].guidance = None
    /\ turns[i].queue_len >= turns[j].wid

\* C5: when the chat-model call of a turn fails the turn has persisted nothing: no
\* message of it is in the context store or the audit log, no trace is recorded,
\* no background tail is scheduled, and the whisper that was pending before the
\* turn is still unconsumed.
C5_NothingPersisted ==
  \A t \in 1..Len(turns) :
    turns[t].pc = "failed" =>
      /\ turns[t].msgs = <<>>
      /\ turns[t].trace_id = NoId
      /\ Len(chat_logs) = 2 * Cardinality({i \in 1..Len(turns) : turns[i].msgs # <<>>})
      /\ Len(traces) = Cardinality({i \in 1..Len(turns) : turns[i].trace_id # NoId})
      /\ \A u \in Users :
           \A m \in Range(user_context[u].recent_messages) :
             \E i \in 1..Len(turns) : m \in Range(turns[i].msgs)
      /\ turns[t].wid # NoId => whisper_suggestions[turns[t].wid].is_consumed = 0

\* ===================================================== the upsert claim

\* C11: each user has at most one active focus row per content; add_focus on a
\* content already active for the user inserts no row, keeps that row's id and
\* created_at, sets its updated_at to the current time, overwrites expected_date
\* only when one is supplied, and touches no other row (the call is add_focus at
\* the current table and instant, for every user, content and expected_date).
C11_Upsert ==
  /\ \A i, j \in 1..Len(user_focus) :
       (/\ user_focus[i].user_id = user_focus[j].user_id
        /\ user_focus[i].content = user_focus[j].content
        /\ user_focus[i].status = "active" /\ user_focus[j].status = "active")
       => i = j
  /\ \A u \in Users, c \in Contents, exp \in ExpDates :
       \A i \in 1..Len(user_focus) :
         (/\ user_focus[i].user_id = u /\ user_focus[i].content = c
          /\ user_focus[i].status = "active")
         => LET after == add_focus(user_focus, u, c, exp, clock) IN
            /\ Len(after) = Len(user_focus)
            /\ after[i] = [user_focus[i] EXCEPT
                             !.updated_at = clock,
                             !.expected_date = IF exp # NoDate THEN exp ELSE @]
            /\ \A k \in 1..Len(user_focus) : k # i => after[k] = user_focus[k]

\* C11's case: a content was archived and added again, and the new active row was
\* then refreshed by a later add_focus that supplied a deadline
C11_Witness ==
  \E i, j \in 1..Len(user_focus) :
    /\ i # j
    /\ user_focus[i].user_id = user_focus[j].user_id
    /\ user_focus[i].content = user_focus[j].content
    /\ user_focus[i].status = "archived" /\ user_focus[j].status = "active"
    /\ user_focus[j].updated_at > user_focus[j].created_at
    /\ user_focus[j].expected_date # NoDate

\* ============================================ the clear and read claims

\* C12: after clear_all(u) returns, get_active(u) is empty and peek_whisper(u)
\* returns none: every focus row of u that was active is archived, every pending
\* whisper of u is consumed, and no focus or whisper row of another user changes.
C12_ClearAll ==
  [][\A u \in Users :
       (ret'.op = "clear_all_focus" /\ ret'.user = u) =>
         /\ get_active_focus_with_time(user_focus', u, clock') = <<>>
         /\ peek_latest_whisper(whisper_suggestions', u) = NoId
         /\ Len(user_focus') = Len(user_focus)
         /\ Len(whisper_suggestions') = Len(whisper_suggestions)
         /\ \A i \in 1..Len(user_focus) :
              IF user_focus[i].user_id = u
              THEN user_focus'[i].status = "archived"
              ELSE user_focus'[i] = user_focus[i]
         /\ \A i \in 1..Len(whisper_suggestions) :
              IF whisper_suggestions[i].user_id = u
              THEN whisper_suggestions'[i].is_consumed = 1
              ELSE whisper_suggestions'[i] = whisper_suggestions[i]
  ]_vars

\* C12's case: clear_all(u) has just returned, having archived a row and consumed a
\* whisper of u, while another user still has an active row and a pending whisper
C12_Witness ==
  /\ ret.op = "clear_all_focus"
  /\ \E i \in 1..Len(user_focus) :
       user_focus[i].user_id = ret.user /\ user_focus[i].status = "archived"
  /\ \E i \in 1..Len(whisper_suggestions) :
       whisper_suggestions[i].user_id = ret.user
  /\ \E v \in Users \ {ret.user} :
       /\ get_active_focus_with_time(user_focus, v, clock) # <<>>
       /\ peek_latest_whisper(whisper_suggestions, v) # NoId

\* C13: peek_latest_whisper and get_active_focus_with_time change no stored field;
\* a consume right after a peek returns the whisper the peek returned; and what
\* get_active returns is computed from the stored timestamps and the clock of the
\* read (expiry and cooldown are no stored flags).
C13_PureReads ==
  [][/\ ret'.op \in {"peek_latest_whisper", "get_active_focus"} =>
          /\ user_focus' = user_focus
          /\ whisper_suggestions' = whisper_suggestions
          /\ user_context' = user_context
     /\ (/\ ret.op = "peek_latest_whisper"
         /\ ret'.op = "get_latest_whisper"
         /\ ret'.user = ret.user) =>
          /\ ret'.id = ret.id
          /\ ret'.val = ret.val
     /\ ret'.op = "get_active_focus" =>
          ResultIds(ret'.val) =
            {user_focus'[i].id : i \in {j \in 1..Len(user_focus') :
               /\ user_focus'[j].user_id = ret'.user
               /\ user_focus'[j].status = "active"
               /\ ~C9_Expired(user_focus'[j], clock')
               /\ ~C9_Cooling(user_focus'[j], clock')}}
  ]_vars

\* C13's case: a peek has just returned the newer of two pending whispers, which is
\* still unconsumed, and the user's table holds an active row that the clock alone
\* has put out of get_active (its deadline passed, its status still active)
C13_Witness ==
  /\ ret.op = "peek_latest_whisper"
  /\ ret.id # NoId
  /\ whisper_suggestions[ret.id].is_consumed = 0
  /\ Cardinality(Unconsumed(whisper_suggestions, ret.user)) = 2
  /\ \E i \in 1..Len(user_focus) :
       /\ user_focus[i].user_id = ret.user
       /\ user_focus[i].status = "active"
       /\ C9_Expired(user_focus[i], clock)

\* ================================================== the profile claims

\* updates of the lists the profile claims try on every stored profile (at most)
MaxBatch == 2

\* C14: batch_update is idempotent on the stored slots: for every stored profile
\* and every update list X, the slots after batch_update(u, X) followed by
\* batch_update(u, X) are the slots after the first call alone
C14_BatchIdempotent ==
  \A u \in ProfileUsers, X \in ListsUpTo(MaxBatch) :
    LET once == batch_update(user_profile, u, X, clock)
        twice == batch_update(once, u, X, clock)
    IN get_all_slots(twice, u) = get_all_slots(once, u)

\* C14 witness: batch_update has just run, and some list of two updates, one of
\* the append slot and one of another slot, that would write both slots of an
\* empty profile writes nothing when it is applied to the stored one
C14_Witness ==
  /\ ret.op = "batch_update"
  /\ \E X \in ListsUpTo(MaxBatch) :
       /\ Len(X) = 2 /\ X[1].slot = "hobbies" /\ X[2].slot = "emotional_baseline"
       /\ batch_result([user_profile EXCEPT ![ret.user] = NoProfile],
                       ret.user, X).updated_count >= 3
       /\ batch_result(user_profile, ret.user, X).updated_count = 0

\* elements of q not in p, in q's order, each once
RECURSIVE NewOf(_, _)
NewOf(p, q) ==
  IF q = <<>> THEN <<>>
  ELSE IF InList(Head(q), p) THEN NewOf(p, Tail(q))
       ELSE <<Head(q)>> \o NewOf(Append(p, Head(q)), Tail(q))

\* C15: for the append slot, batch_update keeps the stored list as a prefix (no
\* element removed or moved), adds behind it exactly the values of the update that
\* are not yet in the list, each once and in the order given, and does not grow
\* the list when every value of the update is already in it
C15_AppendSet ==
  \A u \in ProfileUsers, value \in ProfileValues :
    LET stored == get_all_slots(user_profile, u)["hobbies"]
        after == get_all_slots(
                   batch_update(user_profile, u,
                                <<[slot |-> "hobbies", value |-> value]>>, clock),
                   u)["hobbies"]
        given == IF value.kind = "list" THEN value.items ELSE <<value>>
    IN (stored.kind = "list" /\ ~is_empty_value(value))
       => /\ after.kind = "list"
          /\ after.items = stored.items \o NewOf(stored.items, given)
          /\ (\A i \in 1..Len(given) : InList(given[i], stored.items))
               => after = stored

\* C15 witness: batch_update has just run and the stored list of the append slot
\* holds one of the values of a two-valued update and lacks the other
C15_Witness ==
  /\ ret.op = "batch_update"
  /\ LET stored == get_all_slots(user_profile, ret.user)["hobbies"]
     IN /\ stored.kind = "list"
        /\ InList(Str("y"), stored.items)
        /\ ~InList(Str("x"), stored.items)
        /\ Len(stored.items) >= 2

\* a str is empty; a list is empty or has only empty elements
EmptyStored(v) ==
  \/ v.kind = "str" /\ v.s = ""
  \/ v.kind = "list" /\ \A i \in 1..Len(v.items) :
                          v.items[i] \in {NoValue, Str(""), List(<<>>)}

\* C16: after any sequence of update_slot, batch_update and extract_slots no
\* stored slot holds an empty string, an empty list or a list whose elements are
\* all empty
C16_NoEmptyStored ==
  \A u \in ProfileUsers, key \in DOMAIN SLOT_SCHEMA :
    ~EmptyStored(get_all_slots(user_profile, u)[key])

\* the slot of the adjudicate strategy, and an update of it
JudgeSlot == CHOOSE k \in DOMAIN SLOT_SCHEMA : SLOT_SCHEMA[k] = "llm_judge"
JudgeUpdate(new) == <<[slot |-> JudgeSlot, value |-> new]>>

ExtractInstants == {0, 1}

\* a field of an extracted dict that brings nothing new to the slots: its key is
\* unknown, its value is unknown (null) or empty, or it is the stored value
NothingNew(slots, field) ==
  \/ field.slot \notin DOMAIN SLOT_SCHEMA
  \/ field.value = NoValue
  \/ EmptyStored(field.value)
  \/ field.value = slots[field.slot]

\* C18: extract_slots writes the row only when a slot value changed: when every
\* extracted field is unknown, empty or equal to the stored value, the row and its
\* updated_at are as before, and a user without a row still has none
C18_WritesOnlyOnChange ==
  \A u \in ProfileUsers, now \in ExtractInstants, ok \in BOOLEAN,
     extracted \in ExtractedDicts, reply \in JudgeReplies :
    (/\ now >= clock
     /\ \A i \in 1..Len(extracted) :
          NothingNew(get_all_slots(user_profile, u), extracted[i]))
    => extract_slots(user_profile, u, ok, extracted, reply, now)[u] = user_profile[u]

\* ================================================ the isolation claim

\* what the reads of the stores return for user v: the active focus list, the
\* newest whisper, the context and the profile slots
ReadsFor(v) ==
  [focus |-> get_active_focus_with_time(user_focus, v, clock),
   whisper |-> peek_latest_whisper(whisper_suggestions, v),
   consume |-> LatestUnconsumed(whisper_suggestions, v),
   context |-> ContextResult(user_context[v]),
   profile |-> get_all_slots(user_profile, v)]

\* this step is a step of a request of user v
StepOf(v) ==
  \/ Len(turns') > Len(turns) /\ turns'[Len(turns')].user = v
  \/ \E t \in 1..Len(turns) : turns'[t] # turns[t] /\ turns[t].user = v

\* C19: operations performed for a user u never change what a read for another
\* user v returns on the context, profile, focus and whisper stores: a step that
\* is not a step of a request of v leaves every read for v as it was
C19_Isolation ==
  [][\A v \in Users : ~StepOf(v) => ReadsFor(v)' = ReadsFor(v)]_vars

\* ============================================ the background tail claims

\* C25: with ENABLE_WHISPERER set to "false" no background tail invokes the
\* whisper planner, whatever the profile, the active focus and the history hold
C25_SwitchedOff ==
  (ENABLE_WHISPERER = "false" /\ ret.op = "tail") => ~ret.planned

\* C26 as stated: the tail that reaches the whisper step invokes the planner
\* unless the profile is empty, the active focus list is empty and the history
\* has fewer than 2 messages
C26_SkipBelowTwo ==
  ret.op = "tail" =>
    (ret.planned <=> ~(/\ ret.active_focus = <<>>
                       /\ \A k \in DOMAIN ret.current_profile :
                            ret.current_profile[k] = NoValue
                       /\ Len(ret.recent_history) < 2))

\* C26 amended: the tail that reaches the whisper step invokes the planner
\* unless the profile is empty, the active focus list is empty and the history
\* has at most 2 messages
C26_SkipUpToTwo ==
  ret.op = "tail" =>
    (ret.planned <=> ~(/\ ret.active_focus = <<>>
                       /\ \A k \in DOMAIN ret.current_profile :
                            ret.current_profile[k] = NoValue
                       /\ Len(ret.recent_history) <= 2))

\* C26 witness: a tail has invoked the planner for a user without profile and
\* without active focus, on a history of more than 2 messages
C26_Witness ==
  /\ ret.op = "tail" /\ ret.planned
  /\ ret.active_focus = <<>>
  /\ ret.current_profile = NoSlots
  /\ Len(ret.recent_history) > 2

\* the whisper table after the step: one more row, of user u with this text, or
\* the table as it was
OneMoreWhisper(u, text) ==
  /\ Len(whisper_suggestions') = Len(whisper_suggestions) + 1
  /\ \A i \in 1..Len(whisper_suggestions) :
       whisper_suggestions'[i] = whisper_suggestions[i]
  /\ whisper_suggestions'[Len(whisper_suggestions')].user_id = u
  /\ whisper_suggestions'[Len(whisper_suggestions')].suggestion = text
  /\ whisper_suggestions'[Len(whisper_suggestions')].is_consumed = 0

\* C27 as stated: a tail saves a whisper, one row with the planner's text, iff the
\* planner returned a non-null, non-empty inject, and calls mark_injected iff in
\* addition used_focus_id is not null
C27_SaveAndMark ==
  [][ret'.op = "tail" =>
       LET gave == ret'.plan.inject # None /\ ret'.plan.inject # ""
       IN /\ ret'.saved <=> gave
          /\ IF gave THEN OneMoreWhisper(ret'.user, ret'.plan.inject)
                     ELSE whisper_suggestions' = whisper_suggestions
          /\ (ret'.marked # NoId) <=> (gave /\ ret'.plan.used # NoUsed)]_vars

\* C27 amended: as stated, but mark_injected is called iff in addition
\* used_focus_id is neither null nor 0, and then with that id
C27_SaveAndMarkTruthy ==
  [][ret'.op = "tail" =>
       LET gave == ret'.plan.inject # None /\ ret'.plan.inject # ""
           named == gave /\ ret'.plan.used # NoUsed /\ ret'.plan.used # 0
       IN /\ ret'.saved <=> gave
          /\ IF gave THEN OneMoreWhisper(ret'.user, ret'.plan.inject)
                     ELSE whisper_suggestions' = whisper_suggestions
          /\ ret'.marked = IF named THEN ret'.plan.used ELSE NoId]_vars

\* C27 witness: a tail has saved the planner's text and marked the focus item
\* the planner named
C27_Witness ==
  /\ ret.op = "tail" /\ ret.saved /\ ret.marked # NoId
  /\ \E i \in 1..Len(user_focus) :
       user_focus[i].id = ret.marked /\ user_focus[i].last_injected_at = clock

\* C28: the tail of a turn changes last_injected_at only of a focus item whose id
\* was in the active_focus list handed to the planner in that tail; with any
\* other used_focus_id no focus row gets a new last_injected_at
C28_MarkOnlyGiven ==
  [][ret'.op = "tail" =>
       \A i \in 1..Len(user_focus') :
         (user_focus'[i].last_injected_at
            # (IF i <= Len(user_focus) THEN user_focus[i].last_injected_at ELSE NoTime))
         => user_focus'[i].id \in ResultIds(ret'.active_focus)]_vars

\* C29: after a tail, every recent_focus item that extraction produced in it is
\* a focus row of the turn's user with the item's content and, when the item
\* carries an expected_date, with that expected_date
C29_FocusKeepsDate ==
  ret.op = "tail" =>
    \A k \in 1..Len(ret.recent_focus) :
      \E i \in 1..Len(user_focus) :
        /\ user_focus[i].user_id = ret.user
        /\ user_focus[i].content = ret.recent_focus[k].content
        /\ ret.recent_focus[k].expected_date # NoDate
             => user_focus[i].expected_date = ret.recent_focus[k].expected_date

AscendingValidAt(group) ==
  \A i, j \in 1..Len(group) : i < j => SortKey(group[i]) <= SortKey(group[j])

\* C21: the list endpoint returns every edge of the user's graph that is not a
\* MENTIONS edge, each with is_current true exactly when invalid_at is null, and
\* with them a grouping of those edges by relation in which every group is
\* sorted by valid_at ascending
C21_ListAndGrouping ==
  (ret.op = "list_memories" /\ ~ret.raises) =>
    LET edges == graph[ret.user].edges
        kept == {i \in 1..Len(edges) : edges[i].relation # "MENTIONS"}
        memories == ret.response.memories
        grouped == ret.response.grouped
    IN /\ Len(memories) = Cardinality(kept)
       /\ \A i \in kept : \E k \in 1..Len(memories) :
            /\ memories[k].relation = edges[i].relation
            /\ memories[k].valid_at = edges[i].valid_at
            /\ memories[k].invalid_at = edges[i].invalid_at
       /\ \A k \in 1..Len(memories) :
            /\ memories[k].relation # "MENTIONS"
            /\ memories[k].is_current <=> memories[k].invalid_at = NoTime
       /\ grouped.present
       /\ DOMAIN grouped.groups = {memories[k].relation : k \in 1..Len(memories)}
       /\ \A rel \in DOMAIN grouped.groups :
            /\ AscendingValidAt(grouped.groups[rel])
            /\ Len(grouped.groups[rel])
                 = Cardinality({k \in 1..Len(memories) : memories[k].relation = rel})
            /\ \A k \in 1..Len(grouped.groups[rel]) :
                 grouped.groups[rel][k].relation = rel

\* C23: when the decision call fails, retrieve still runs the graph search and
\* returns what it found, and smart_store stores nothing: the graph is unchanged
C23_DecisionDefaults ==
  [][/\ (ret'.op = "retrieve" /\ DecisionFailed(ret'.reply)) =>
          /\ ret'.result.should_retrieve
          /\ ret'.result.searched
          /\ ret'.result.memories
               = (IF ret'.found.raises THEN <<>> ELSE ret'.found.results)
     /\ (ret'.op = "smart_store" /\ DecisionFailed(ret'.reply)) =>
          /\ ~ret'.should_store
          /\ ret'.stored_count = 0
          /\ graph' = graph
  ]_vars

\* C23's case: a retrieve whose decision call failed has returned the memories
\* its search found
C23_Witness ==
  /\ ret.op = "retrieve" /\ DecisionFailed(ret.reply)
  /\ ret.result.searched /\ ret.result.memories # <<>>

\* the messages of request t are rows of the audit log
Logged(logs, tr) ==
  \A k \in 1..Len(tr.msgs) :
    \E i \in 1..Len(logs) : logs[i] = [user_id |-> tr.user, message |-> tr.msgs[k]]

\* the request has its reply
Answered(tr) == tr.pc \in {"responded", "episode", "done"}

C22_Purged ==
  [][\A u \in Users :
       /\ (ret'.op = "clear_context" /\ ret'.user = u) => user_context'[u] = NoRow
       /\ (ret'.op = "clear_profile" /\ ret'.user = u) => ~user_profile'[u].present
       /\ (ret'.op = "clear_all_focus" /\ ret'.user = u) =>
            /\ \A i \in 1..Len(user_focus') : user_focus'[i].user_id # u
            /\ \A i \in 1..Len(whisper_suggestions') :
                 whisper_suggestions'[i].user_id # u
       /\ (ret'.op = "clear_chat_history" /\ ret'.user = u) =>
            \A i \in 1..Len(chat_logs') : chat_logs'[i].user_id # u
       /\ (ret'.op = "clear_memories" /\ ret'.user = u) => graph'[u] = NoGraph
  ]_vars

\* ================================================= the refresh claim

\* C40: an active focus without expected_date is not treated as expired until 14
\* days after its latest refresh by add_focus (its updated_at): until then
\* get_active lists it unless it is cooling down
C40_RefreshKeepsActive ==
  \A i \in 1..Len(user_focus) :
    LET f == user_focus[i] IN
    ( /\ f.status = "active"
      /\ f.expected_date = NoDate
      /\ Date(clock) <= Date(f.updated_at) + DEFAULT_FOCUS_TTL_DAYS
      /\ ~in_cooldown(f, clock) )
    => f.id \in ResultIds(get_active_focus_with_time(user_focus, f.user_id, clock))

\* ================================================= the tail's ordering claims

\* the requests of user u whose tail is inside an add_memory_item call
Ingesting(u) == {t \in 1..Len(turns) : turns[t].user = u /\ turns[t].pc = "episode"}

\* C33: for every user at most one graph write (add_episode) is in progress at
\* any time, also when the tails of two requests of that user overlap
C33_SingleWriter ==
  \A u \in Users : Cardinality(Ingesting(u)) <= 1

\* the recent_focus items of request tr are rows of its user in the focus table
FocusAdded(rows, tr) ==
  \A k \in 1..Len(tr.recent_focus) :
    \E i \in 1..Len(rows) :
      rows[i].user_id = tr.user /\ rows[i].content = tr.recent_focus[k].content

\* the replace updates of request tr are in the stored profile of its user
ProfileUpdated(profile, tr) ==
  \A k \in 1..Len(tr.slot_updates) :
    LET upd == tr.slot_updates[k] IN
    (upd.slot \in DOMAIN SLOT_SCHEMA /\ SLOT_SCHEMA[upd.slot] = "replace"
       /\ ~is_empty_value(upd.value))
    => get_all_slots(profile, tr.user)[upd.slot] = upd.value

\* the add_memory_item calls of a tail run one at a time: a step takes at most
\* one item off the items still to ingest, and the tail leaves the loop only
\* from its last item
OneAtATime(t) ==
  turns[t].pc = "episode" =>
    /\ turns'[t].pc = "episode" =>
         turns'[t].items \in {turns[t].items, turns[t].items - 1} /\ turns'[t].items >= 1
    /\ turns'[t].pc # "episode" => turns[t].items = 1

C32_StepsIsolated ==
  [][ret'.op = "tail_raised" =>
       /\ ret'.planned
       /\ chat_logs' = chat_logs
       /\ user_context' = user_context
       /\ turns'[ret'.turn].msgs = turns[ret'.turn].msgs
  ]_vars

\* the reply was read to its end without an exception
Analysed(reply) ==
  /\ reply.kind = "object"
  /\ reply.slot_updates.kind = "missing" \/ SlotLoopRuns(reply.slot_updates)
  /\ HasLen(OrEmpty(reply.memory_items))
  /\ HasLen(OrEmpty(reply.recent_focus))

\* C36: analyze_query returns three lists; every returned slot update names a
\* slot of the enum and the reply's updates of such slots are all kept, in
\* order; and when the model call or the parsing fails the three lists are empty
C36_ThreeLists ==
  ret.op = "analyze_query" =>
    /\ \A f \in {"slot_updates", "memory_items", "recent_focus"} :
         ret.result[f].kind = "list"
    /\ \A i \in 1..Len(ret.result.slot_updates.items) :
         ret.result.slot_updates.items[i] \in ALLOWED_SLOTS
    /\ Analysed(ret.reply) =>
         ret.result.slot_updates.items =
           SelectSeq(OrEmpty(ret.reply.slot_updates).items,
                     LAMBDA x : x \in ALLOWED_SLOTS)
    /\ ~Analysed(ret.reply) => ret.result = EmptyResult

\* the handles user u has in the process
HandlesOf(ms, u) == {ms[r].user_instances[u] : r \in Routers} \ {NoHandle}

\* C34: a process holds at most one graph handle per user, whichever router
\* asked for it, the handle is bound to the user's partition, and a handle that
\* was created stays the one every later call gets
C34_OneHandlePerUser ==
  /\ \A u \in Users :
       /\ Cardinality(HandlesOf(memory_services, u)) <= 1
       /\ \A h \in HandlesOf(memory_services, u) : h.database = u
  /\ ret.op = "get_graph_for_user" =>
       HandlesOf(memory_services, ret.user) = {ret.handle}

\* C35: every request of the JSON path has max_tokens <= 4096 and a system
\* message that holds the word JSON and, when a schema was given, the schema
C35_RequestShape ==
  ret.op = "generate_response" =>
    /\ ret.max_tokens <= MAX_TOKENS_LIMIT
    /\ \E i \in 1..Len(ret.messages) :
         /\ ret.messages[i].role = "system"
         /\ ContainsJson(ret.messages[i].content)
         /\ ret.response_model = "model" =>
              \E k \in 1..Len(ret.messages[i].content) :
                ret.messages[i].content[k] = SchemaInstruction

\* the audit log holds message m of user u
AuditHolds(logs, u, m) ==
  \E i \in 1..Len(logs) : logs[i].user_id = u /\ logs[i].message = m

\* the context row holds message m
ContextHolds(row, m) ==
  row.present /\ \E i \in 1..Len(row.recent_messages) : row.recent_messages[i] = m

\* C38: when chat_interact has done its two writes, the turn's two messages are
\* in both the context store and the audit log, or in neither
C38_BothOrNeither ==
  [][\A t \in 1..Len(turns) :
       (turns[t].pc = "llm" /\ turns'[t].pc # "llm") =>
         \A i, j \in 1..Len(turns'[t].msgs) :
           AuditHolds(chat_logs', turns[t].user, turns'[t].msgs[i])
             <=> ContextHolds(user_context'[turns[t].user], turns'[t].msgs[j])
  ]_vars

\* the messages a context row holds
Recent(row) == {row.recent_messages[i] : i \in 1..Len(row.recent_messages)}

\* C37: no appended message is silently lost: an append puts its messages in
\* recent, and a message leaves recent only in a get_context that compacted
\* it and stored the summary the summarizer returned
C37_NoSilentLoss ==
  [][/\ ret'.op = "append_message" =>
          \A m \in (next_msg + 1)..next_msg' : m \in Recent(user_context'[ret'.user])
     /\ \A u \in Users : \A m \in Recent(user_context[u]) :
          \/ m \in Recent(user_context'[u])
          \/ /\ ret'.op = "get_context" /\ ret'.user = u
             /\ ret'.llm \in SummaryTexts
             /\ m \in Recent(ret'.before)
             /\ user_context'[u].summary = ret'.llm
  ]_vars

\* C37 witness: a compaction has taken messages out of recent
C37_Witness ==
  /\ ret.op = "get_context"
  /\ ret.llm \in SummaryTexts
  /\ Recent(ret.before) \ Recent(user_context[ret.user]) # {}
  /\ user_context[ret.user].summary = ret.llm

\* the slots hold the change of a one-item update list
HoldsChange(slots, updates) ==
  LET upd == updates[1]
  IN IF SLOT_SCHEMA[upd.slot] = "append"
     THEN slots[upd.slot].kind = "list" /\ InList(upd.value, slots[upd.slot].items)
     ELSE slots[upd.slot] = upd.value

\* C39: when a batch_update ends that another batch_update of the same user,
\* changing another slot, overlapped, the stored profile holds both changes
C39_NoLostUpdate ==
  ret.op = "batch_update_save" =>
    \A other \in ret.overlapped :
      other[1].slot # ret.updates[1].slot =>
        /\ HoldsChange(get_all_slots(user_profile, ret.user), ret.updates)
        /\ HoldsChange(get_all_slots(user_profile, ret.user), other)

====
